---- MODULE Spec2Model ----
(***************************************************************************)
(* A model of runzip: the random-access ZIP reader.  The archive is a      *)
(* sequence of bytes; the parser (find_eocd, read_zip64_eocd, list_files,  *)
(* parse_cdfh, get_data_offset) and the extractor (extract_to_memory,      *)
(* extract_to_file, extract_to_stdout) are translated from src/src/zip and *)
(* run over the positioned reads of src/src/io/local.rs.                   *)
(*                                                                         *)
(* TLC's integers are 32 bits wide, so a u32 or u64 of the program is kept *)
(* as its little-endian bytes (4 or 8 of them) and turned into a number    *)
(* only where the program uses it as a position inside a modelled file.    *)
(***************************************************************************)
EXTENDS Integers, Sequences, FiniteSets, TLC

VARIABLES
    file,       \* the bytes of the source (LocalFileReader.file), fixed after open
    pc,         \* where the parser is: idle, eocd, cdinfo, walk, listed, failed, aborted
    reads,      \* the read_at calls the running (or last) operation issued: <<[off, len]>>
    eocd,       \* list_files: the EOCD find_eocd returned
    eocd_offset,\* list_files: its offset
    zip64,      \* list_files: whether the ZIP64 branch was taken (eocd.is_zip64())
    cd,         \* list_files: [off, size, total] the Central Directory position in use
    cd_data,    \* list_files: the Central Directory buffer [base, n, len]
    cursor,     \* list_files: position of the Cursor over cd_data
    starts,     \* list_files: cursor position at which each parsed entry began
    acc,        \* list_files: the entries vector being filled
    result,     \* what the last list_files call returned: [status, err, entries]
    nops,       \* number of operations started on this parser
    last,       \* what the last extraction returned: [op, index, status, err, data, path]
    fs_files,   \* the filesystem: path -> content, or NoFile
    fs_dirs,    \* the filesystem: the directories that exist
    stdout,     \* the write_all calls made on standard output so far
    archive,    \* how the source was built: [valid, members, eocd_at, comment_len]
    http_size,  \* HttpRangeReader.size
    transferred_bytes, \* HttpRangeReader.transferred_bytes
    call,       \* the HttpRangeReader::read_at call under way, or the last one
    returned,   \* the sum of the counts read_at returned with Ok
    ncalls,     \* number of HttpRangeReader::read_at calls started
    peer,       \* a read_at call of a second task on the same reader
    tally,      \* per task: the sum of the chunk lengths its call copied
    arg,        \* the 16-bit value a function of structures.rs is applied to
    ret         \* what it returned

zipvars == <<archive, file, pc, reads, eocd, eocd_offset, zip64, cd, cd_data, cursor,
             starts, acc, result, nops, last, fs_files, fs_dirs, stdout>>
sharedvars == <<peer, tally>>
httpvars == <<http_size, transferred_bytes, call, returned, ncalls, sharedvars>>
purevars == <<arg, ret>>
vars == <<zipvars, httpvars, purevars>>

----------------------------------------------------------------------------
(* Integers of the program *)

Min(a, b) == IF a <= b THEN a ELSE b

MaxOf(S) == CHOOSE x \in S : \A y \in S : y <= x

\* A u16 from two little-endian bytes (byteorder's read_u16::<LittleEndian>).
LE16(lo, hi) == lo + 256 * hi

\* The little-endian bytes of a u16.
Bytes16(n) == <<n % 256, (n \div 256) % 256>>

\* The four little-endian bytes of a number below 2^31.
Bytes32(n) ==
    <<n % 256, (n \div 256) % 256, (n \div 65536) % 256, (n \div 16777216) % 256>>

\* A u64 (eight little-endian bytes) from a number below 2^31.
U64(n) == Bytes32(n) \o <<0, 0, 0, 0>>

\* `x as u64` for a u32 x.
Widen32(b4) == b4 \o <<0, 0, 0, 0>>

\* Whether a u64 is below 2^31, so that the model holds it as a number.
IsSmall(w) == w[8] = 0 /\ w[7] = 0 /\ w[6] = 0 /\ w[5] = 0 /\ w[4] < 128

ToNat(w) == w[1] + 256 * w[2] + 65536 * w[3] + 16777216 * w[4]

\* a < b on u64.
U64Lt(a, b) ==
    LET d == {k \in 1..8 : a[k] # b[k]}
    IN  d # {} /\ a[MaxOf(d)] < b[MaxOf(d)]

\* a - b on u64, wrapping, for numbers a < b: 2^64 - (b - a) is the bitwise
\* complement of b - a - 1.
WrapSub(a, b) ==
    LET x == Bytes32(b - a - 1)
    IN  <<255 - x[1], 255 - x[2], 255 - x[3], 255 - x[4], 255, 255, 255, 255>>

\* 0xFFFFFFFF as a u32 and as a u64; 0xFFFF.
SENTINEL32 == <<255, 255, 255, 255>>
SENTINEL64 == <<255, 255, 255, 255, 0, 0, 0, 0>>
SENTINEL16 == 65535

----------------------------------------------------------------------------
(* io/local.rs: the positioned read *)

\* pread(2) takes the offset as a signed 64-bit number: an offset of 2^63 or
\* more is negative there and the call fails with EINVAL.
ReadFails(off) == off[8] >= 128

\* The number of bytes read_at(off, buf) fills, buf.len() = len (both u64).
ReadCount(f, off, len) ==
    IF ~IsSmall(off) \/ ToNat(off) >= Len(f) THEN 0
    ELSE IF ~IsSmall(len) THEN Len(f) - ToNat(off)
    ELSE Min(ToNat(len), Len(f) - ToNat(off))

\* A buffer vec![0u8; len] after read_at(off, &mut buf): the first n bytes come
\* from the file at base, the others keep the 0 they were allocated with.
Buffer(f, off, len) ==
    [base |-> IF ReadCount(f, off, len) = 0 THEN 0 ELSE ToNat(off),
     n    |-> ReadCount(f, off, len),
     len  |-> len]

\* buf[k], k counted from 0.
BufByte(f, b, k) == IF k < b.n THEN f[b.base + k + 1] ELSE 0

\* buf[from .. from + count] as a sequence.
BufSlice(f, b, from, count) == [k \in 1..count |-> BufByte(f, b, from + k - 1)]

\* The whole of a buffer of modest size.
BufSeq(f, b) == BufSlice(f, b, 0, ToNat(b.len))

\* LocalFileReader::read_at, as the parser uses it: the buffer it leaves.
read_at(f, off, len) ==
    IF ReadFails(off) THEN [ok |-> FALSE, err |-> "Invalid argument"]
    ELSE [ok |-> TRUE, buf |-> Buffer(f, off, len)]

----------------------------------------------------------------------------
(* zip/structures.rs *)

EOCD_SIGNATURE == <<80, 75, 5, 6>>
EOCD_SIZE == 22
LOCATOR_SIGNATURE == <<80, 75, 6, 7>>
LOCATOR_SIZE == 20
EOCD64_SIGNATURE == <<80, 75, 6, 6>>
EOCD64_MIN_SIZE == 56
CDFH_SIGNATURE == <<80, 75, 1, 2>>
CDFH_MIN_SIZE == 46
LFH_SIGNATURE == <<80, 75, 3, 4>>
LFH_SIZE == 30

Stored == [tag |-> "Stored", v |-> 0]
Deflate == [tag |-> "Deflate", v |-> 8]
Unknown(v) == [tag |-> "Unknown", v |-> v]

\* A decoding of the method that takes every unknown value for Stored.
from_u16_lenient(value) == IF value = 8 THEN Deflate ELSE Stored

\* CompressionMethod::from_u16
from_u16(value) ==
    CASE value = 0 -> Stored
      [] value = 8 -> Deflate
      [] OTHER     -> Unknown(value)

\* The number of a method told from its variant alone.
as_u16_known(m) == IF m.tag = "Deflate" THEN 8 ELSE 0

\* CompressionMethod::as_u16
as_u16(m) ==
    CASE m.tag = "Stored"  -> 0
      [] m.tag = "Deflate" -> 8
      [] OTHER             -> m.v

\* x & y and x >> k on unsigned integers.
RECURSIVE BitAnd(_, _)
BitAnd(x, y) ==
    IF x = 0 \/ y = 0 THEN 0
    ELSE (x % 2) * (y % 2) + 2 * BitAnd(x \div 2, y \div 2)

RECURSIVE Shr(_, _)
Shr(x, k) == IF k = 0 THEN x ELSE Shr(x \div 2, k - 1)

\* `x as u8`, and a u16 sum.
AsU8(x) == x % 256
AsU16(x) == x % 65536

\* The seconds field taken as it is packed.
mod_time_packed(last_mod_time) ==
    [hour   |-> AsU8(BitAnd(Shr(last_mod_time, 11), 31)),
     minute |-> AsU8(BitAnd(Shr(last_mod_time, 5), 63)),
     second |-> AsU8(BitAnd(last_mod_time, 31))]

\* ZipFileEntry::mod_date
mod_date(last_mod_date) ==
    [year  |-> AsU16(BitAnd(Shr(last_mod_date, 9), 127) + 1980),
     month |-> AsU8(BitAnd(Shr(last_mod_date, 5), 15)),
     day   |-> AsU8(BitAnd(last_mod_date, 31))]

\* ZipFileEntry::mod_time
mod_time(last_mod_time) ==
    [hour   |-> AsU8(BitAnd(Shr(last_mod_time, 11), 31)),
     minute |-> AsU8(BitAnd(Shr(last_mod_time, 5), 63)),
     second |-> AsU8(AsU16(BitAnd(last_mod_time, 31) * 2))]

\* EndOfCentralDirectory::from_bytes on a slice d (a sequence of bytes).
Eocd_from_bytes(d) ==
    IF Len(d) < EOCD_SIZE THEN [ok |-> FALSE, err |-> "Invalid End of Central Directory"]
    ELSE IF SubSeq(d, 1, 4) # EOCD_SIGNATURE
    THEN [ok |-> FALSE, err |-> "Invalid End of Central Directory"]
    ELSE [ok |-> TRUE,
          disk_number   |-> LE16(d[5], d[6]),
          disk_with_cd  |-> LE16(d[7], d[8]),
          disk_entries  |-> LE16(d[9], d[10]),
          total_entries |-> LE16(d[11], d[12]),
          cd_size       |-> SubSeq(d, 13, 16),
          cd_offset     |-> SubSeq(d, 17, 20),
          comment_len   |-> LE16(d[21], d[22])]

\* The promotion test looking at the entry counts only.
is_zip64_counts(e) == e.disk_entries = SENTINEL16 \/ e.total_entries = SENTINEL16

\* EndOfCentralDirectory::is_zip64
is_zip64(e) ==
    \/ e.disk_entries = SENTINEL16
    \/ e.total_entries = SENTINEL16
    \/ e.cd_size = SENTINEL32
    \/ e.cd_offset = SENTINEL32

\* Zip64EOCDLocator::from_bytes
Locator_from_bytes(d) ==
    IF Len(d) < LOCATOR_SIZE THEN [ok |-> FALSE, err |-> "Invalid ZIP64 format"]
    ELSE IF SubSeq(d, 1, 4) # LOCATOR_SIGNATURE
    THEN [ok |-> FALSE, err |-> "Invalid ZIP64 format"]
    ELSE [ok |-> TRUE,
          disk_with_eocd64 |-> SubSeq(d, 5, 8),
          eocd64_offset    |-> SubSeq(d, 9, 16),
          total_disks      |-> SubSeq(d, 17, 20)]

\* Zip64EOCD::from_bytes
Eocd64_from_bytes(d) ==
    IF Len(d) < EOCD64_MIN_SIZE THEN [ok |-> FALSE, err |-> "Invalid ZIP64 format"]
    ELSE IF SubSeq(d, 1, 4) # EOCD64_SIGNATURE
    THEN [ok |-> FALSE, err |-> "Invalid ZIP64 format"]
    ELSE [ok |-> TRUE,
          eocd64_size     |-> SubSeq(d, 5, 12),
          version_made_by |-> LE16(d[13], d[14]),
          version_needed  |-> LE16(d[15], d[16]),
          disk_number     |-> SubSeq(d, 17, 20),
          disk_with_cd    |-> SubSeq(d, 21, 24),
          disk_entries    |-> SubSeq(d, 25, 32),
          total_entries   |-> SubSeq(d, 33, 40),
          cd_size         |-> SubSeq(d, 41, 48),
          cd_offset       |-> SubSeq(d, 49, 56)]

----------------------------------------------------------------------------
(* zip/parser.rs: find_eocd *)

MAX_COMMENT_SIZE == 65535

\* The tail read never accepted.
TailRejected(f) == FALSE

\* The tail read accepted on its signature, whatever its comment length.
TailSignature(f) ==
    /\ Len(f) >= EOCD_SIZE
    /\ SubSeq(f, Len(f) - EOCD_SIZE + 1, Len(f) - EOCD_SIZE + 4) = EOCD_SIGNATURE

\* The 22-byte tail read of find_eocd is accepted: signature and zero comment.
TailAccepted(f) ==
    /\ Len(f) >= EOCD_SIZE
    /\ LET offset == Len(f) - EOCD_SIZE
       IN  /\ SubSeq(f, offset + 1, offset + 4) = EOCD_SIGNATURE
           /\ SubSeq(f, offset + 21, offset + 22) = <<0, 0>>

\* The search window with the + 22 left out.
SearchSizeShort(f) == Min(MAX_COMMENT_SIZE, Len(f))

\* search_size = (MAX_COMMENT_SIZE + SIZE).min(self.size)
SearchSize(f) == Min(MAX_COMMENT_SIZE + EOCD_SIZE, Len(f))

\* The backward loop deciding on the signature alone.
ScanSignatures(f) ==
    LET search_size  == SearchSize(f)
        search_start == Len(f) - search_size
        upper        == IF search_size >= EOCD_SIZE THEN search_size - EOCD_SIZE ELSE 0
    IN  {i \in 0..(upper - 1) :
            SubSeq(f, search_start + i + 1, search_start + i + 4) = EOCD_SIGNATURE}

\* The indexes i of the search buffer the backward loop accepts: the range is
\* (0..buf.len().saturating_sub(22)), so i stops short of buf.len() - 22.
ScanMatches(f) ==
    LET search_size  == SearchSize(f)
        search_start == Len(f) - search_size
        upper        == IF search_size >= EOCD_SIZE THEN search_size - EOCD_SIZE ELSE 0
    IN  {i \in 0..(upper - 1) :
            /\ f[search_start + i + 1] = EOCD_SIGNATURE[1]
            /\ f[search_start + i + 2] = EOCD_SIGNATURE[2]
            /\ f[search_start + i + 3] = EOCD_SIGNATURE[3]
            /\ f[search_start + i + 4] = EOCD_SIGNATURE[4]
            /\ LE16(f[search_start + i + 21], f[search_start + i + 22])
                   = search_size - i - EOCD_SIZE}

\* ZipParser::find_eocd: [ok, eocd, offset, reads] or [ok, err, reads].
find_eocd(f) ==
    LET size         == Len(f)
        tail         == [off |-> U64(size - EOCD_SIZE), len |-> U64(EOCD_SIZE)]
        tail_reads   == IF size >= EOCD_SIZE THEN <<tail>> ELSE <<>>
        search_size  == SearchSize(f)
        search_start == size - search_size
        scan         == [off |-> U64(search_start), len |-> U64(search_size)]
    IN  IF TailAccepted(f)
        THEN [ok     |-> TRUE,
              eocd   |-> Eocd_from_bytes(SubSeq(f, size - EOCD_SIZE + 1, size)),
              offset |-> size - EOCD_SIZE,
              reads  |-> tail_reads]
        ELSE IF ScanMatches(f) # {}
        THEN LET i == MaxOf(ScanMatches(f))
             IN  [ok     |-> TRUE,
                  eocd   |-> Eocd_from_bytes(
                                 SubSeq(f, search_start + i + 1,
                                        search_start + i + EOCD_SIZE)),
                  offset |-> search_start + i,
                  reads  |-> tail_reads \o <<scan>>]
        ELSE [ok |-> FALSE, err |-> "Not a valid ZIP file",
              reads |-> tail_reads \o <<scan>>]

----------------------------------------------------------------------------
(* zip/parser.rs: read_zip64_eocd *)

Err(msg) == [msg |-> msg, arg |-> 0]

\* eocd_offset - Zip64EOCDLocator::SIZE on u64.  Below 20 the subtraction
\* overflows: a build with overflow checks panics there ("panic"), a build
\* without them wraps ("wrap").
LocatorOffset(offset, build) ==
    IF offset >= LOCATOR_SIZE THEN [ok |-> TRUE, off |-> U64(offset - LOCATOR_SIZE)]
    ELSE IF build = "wrap" THEN [ok |-> TRUE, off |-> WrapSub(offset, LOCATOR_SIZE)]
    ELSE [ok |-> FALSE]

\* ZipParser::read_zip64_eocd: [status, eocd64 | err, reads], status one of
\* "ok", "err", "panic".
read_zip64_eocd(f, offset, build) ==
    LET lo == LocatorOffset(offset, build)
    IN  IF ~lo.ok THEN [status |-> "panic", reads |-> <<>>]
        ELSE
        LET r1  == read_at(f, lo.off, U64(LOCATOR_SIZE))
            rd1 == <<[off |-> lo.off, len |-> U64(LOCATOR_SIZE)]>>
        IN  IF ~r1.ok THEN [status |-> "err", err |-> Err(r1.err), reads |-> rd1]
            ELSE
            LET locator == Locator_from_bytes(BufSeq(f, r1.buf))
            IN  IF ~locator.ok
                THEN [status |-> "err", err |-> Err(locator.err), reads |-> rd1]
                ELSE
                LET r2  == read_at(f, locator.eocd64_offset, U64(EOCD64_MIN_SIZE))
                    rd2 == rd1 \o <<[off |-> locator.eocd64_offset,
                                     len |-> U64(EOCD64_MIN_SIZE)]>>
                IN  IF ~r2.ok THEN [status |-> "err", err |-> Err(r2.err), reads |-> rd2]
                    ELSE
                    LET e64 == Eocd64_from_bytes(BufSeq(f, r2.buf))
                    IN  IF ~e64.ok
                        THEN [status |-> "err", err |-> Err(e64.err), reads |-> rd2]
                        ELSE [status |-> "ok", eocd64 |-> e64, reads |-> rd2]

----------------------------------------------------------------------------
(* zip/parser.rs: parse_cdfh *)

\* Cursor::read_exact of k bytes at position p succeeds: the bytes are there.
Avail(b, p, k) == p + k <= ToNat(b.len)

\* String::from_utf8_lossy, as code points: an ASCII byte is itself, a
\* two-byte sequence is decoded, any other byte becomes U+FFFD.  (Exact for
\* every byte below 0xE0; the model draws no three- or four-byte leads.)
RECURSIVE from_utf8_lossy(_)
from_utf8_lossy(s) ==
    IF s = <<>> THEN <<>>
    ELSE IF s[1] < 128 THEN <<s[1]>> \o from_utf8_lossy(Tail(s))
    ELSE IF s[1] \in 194..223 /\ Len(s) >= 2 /\ s[2] \in 128..191
    THEN <<(s[1] - 192) * 64 + (s[2] - 128)>> \o from_utf8_lossy(SubSeq(s, 3, Len(s)))
    ELSE <<65533>> \o from_utf8_lossy(Tail(s))

\* file_name.ends_with('/')
ends_with_slash(name) == Len(name) > 0 /\ name[Len(name)] = 47

\* A read of the 0x0001 record that is not conditional on the sentinel.
Zip64FieldAlways(f, b, q, end, val) ==
    IF q + 8 <= end
    THEN IF Avail(b, q, 8)
         THEN [ok |-> TRUE, val |-> BufSlice(f, b, q, 8), q |-> q + 8]
         ELSE [ok |-> FALSE]
    ELSE [ok |-> TRUE, val |-> val, q |-> q]

\* One conditional read of the 0x0001 record: `if field == 0xFFFFFFFF &&
\* cursor.position() + 8 <= extra_field_end { field = cursor.read_u64()? }`.
Zip64Field(f, b, q, end, val) ==
    IF val = SENTINEL64 /\ q + 8 <= end
    THEN IF Avail(b, q, 8)
         THEN [ok |-> TRUE, val |-> BufSlice(f, b, q, 8), q |-> q + 8]
         ELSE [ok |-> FALSE]
    ELSE [ok |-> TRUE, val |-> val, q |-> q]

\* The body of `if header_id == 0x0001`: the three conditional reads in the
\* order uncompressed size, compressed size, LFH offset; q is the cursor after
\* the record's 4-byte header.  used: the bytes the reads consumed.
Zip64Record(f, b, q, end, u, c, l) ==
    LET r1 == Zip64Field(f, b, q, end, u)
    IN  IF ~r1.ok THEN [ok |-> FALSE]
        ELSE
        LET r2 == Zip64Field(f, b, r1.q, end, c)
        IN  IF ~r2.ok THEN [ok |-> FALSE]
            ELSE
            LET r3 == Zip64Field(f, b, r2.q, end, l)
            IN  IF ~r3.ok THEN [ok |-> FALSE]
                ELSE [ok |-> TRUE, u |-> r1.val, c |-> r2.val, l |-> r3.val,
                      used |-> r3.q - q]

\* The loop `while cursor.position() + 4 <= extra_field_end` from position p.
\* z64: the 0x0001 records the loop entered, as <<[at, size, used]>> (at: the
\* position of the record's payload, size: its declared payload size).
RECURSIVE ExtraWalk(_, _, _, _, _, _, _, _)
ExtraWalk(f, b, p, end, u, c, l, z64) ==
    IF p + 4 > end THEN [ok |-> TRUE, u |-> u, c |-> c, l |-> l, z64 |-> z64]
    ELSE IF ~Avail(b, p, 4) THEN [ok |-> FALSE]
    ELSE
    LET header_id  == LE16(BufByte(f, b, p), BufByte(f, b, p + 1))
        field_size == LE16(BufByte(f, b, p + 2), BufByte(f, b, p + 3))
    IN  IF header_id = 1
        THEN LET r == Zip64Record(f, b, p + 4, end, u, c, l)
             IN  IF ~r.ok THEN [ok |-> FALSE]
                 ELSE \* the rest of the extra field is skipped: position = end
                      [ok |-> TRUE, u |-> r.u, c |-> r.c, l |-> r.l,
                       z64 |-> Append(z64, [at |-> p + 4, size |-> field_size,
                                            used |-> r.used])]
        ELSE ExtraWalk(f, b, p + 4 + field_size, end, u, c, l, z64)

\* ZipParser::parse_cdfh with the cursor at p: [ok, entry, pos, ...] or
\* [ok, err].  Besides the entry and the cursor's new position the result
\* keeps what the header declared (name_len, extra_len, comment_len, and the
\* three 32-bit fields before any ZIP64 replacement) and the z64 of ExtraWalk.
parse_cdfh(f, b, p) ==
    IF ~Avail(b, p, 4) THEN [ok |-> FALSE, err |-> Err("failed to fill whole buffer")]
    ELSE IF BufSlice(f, b, p, 4) # CDFH_SIGNATURE
    THEN [ok |-> FALSE, err |-> Err("Invalid Central Directory File Header")]
    ELSE IF ~Avail(b, p, CDFH_MIN_SIZE)
    THEN [ok |-> FALSE, err |-> Err("failed to fill whole buffer")]
    ELSE
    LET h == BufSlice(f, b, p, CDFH_MIN_SIZE)
        compression_method  == LE16(h[11], h[12])
        last_mod_time       == LE16(h[13], h[14])
        last_mod_date       == LE16(h[15], h[16])
        crc32               == SubSeq(h, 17, 20)
        compressed_size     == Widen32(SubSeq(h, 21, 24))
        uncompressed_size   == Widen32(SubSeq(h, 25, 28))
        file_name_length    == LE16(h[29], h[30])
        extra_field_length  == LE16(h[31], h[32])
        file_comment_length == LE16(h[33], h[34])
        lfh_offset          == Widen32(SubSeq(h, 43, 46))
        name_at             == p + CDFH_MIN_SIZE
    IN  IF ~Avail(b, name_at, file_name_length)
        THEN [ok |-> FALSE, err |-> Err("failed to fill whole buffer")]
        ELSE
        LET file_name       == from_utf8_lossy(BufSlice(f, b, name_at, file_name_length))
            extra_at        == name_at + file_name_length
            extra_field_end == extra_at + extra_field_length
            w == ExtraWalk(f, b, extra_at, extra_field_end,
                           uncompressed_size, compressed_size, lfh_offset, <<>>)
        IN  IF ~w.ok THEN [ok |-> FALSE, err |-> Err("failed to fill whole buffer")]
            ELSE [ok |-> TRUE,
                  entry |-> [file_name          |-> file_name,
                             compression_method |-> from_u16(compression_method),
                             compressed_size    |-> w.c,
                             uncompressed_size  |-> w.u,
                             crc32              |-> crc32,
                             lfh_offset         |-> w.l,
                             last_mod_time      |-> last_mod_time,
                             last_mod_date      |-> last_mod_date,
                             is_directory       |-> ends_with_slash(file_name)],
                  pos         |-> extra_field_end + file_comment_length,
                  name_len    |-> file_name_length,
                  extra_at    |-> extra_at,
                  extra_len   |-> extra_field_length,
                  comment_len |-> file_comment_length,
                  base_u      |-> uncompressed_size,
                  base_c      |-> compressed_size,
                  base_l      |-> lfh_offset,
                  z64         |-> w.z64]

----------------------------------------------------------------------------
(* zip/parser.rs: get_data_offset;  zip/extractor.rs *)

\* The data offset taken from the entry's name as the Central Directory gave
\* it, without reading the Local File Header's lengths.
get_data_offset_cd(f, entry) ==
    [ok |-> TRUE,
     offset |-> ToNat(entry.lfh_offset) + LFH_SIZE + Len(entry.file_name),
     reads |-> <<[off |-> entry.lfh_offset, len |-> U64(LFH_SIZE)]>>]

\* ZipParser::get_data_offset: [ok, offset | err, reads].
get_data_offset(f, entry) ==
    LET r  == read_at(f, entry.lfh_offset, U64(LFH_SIZE))
        rd == <<[off |-> entry.lfh_offset, len |-> U64(LFH_SIZE)]>>
    IN  IF ~r.ok THEN [ok |-> FALSE, err |-> Err(r.err), reads |-> rd]
        ELSE
        LET lfh_buf == BufSeq(f, r.buf)
        IN  IF SubSeq(lfh_buf, 1, 4) # LFH_SIGNATURE
            THEN [ok |-> FALSE, err |-> Err("Invalid Local File Header"), reads |-> rd]
            ELSE
            LET file_name_length   == LE16(lfh_buf[27], lfh_buf[28])
                extra_field_length == LE16(lfh_buf[29], lfh_buf[30])
            IN  [ok |-> TRUE,
                 offset |-> ToNat(entry.lfh_offset) + LFH_SIZE
                                + file_name_length + extra_field_length,
                 reads |-> rd]

\* Vec<u8> contents: head, followed by pad bytes of 0 (what a buffer keeps
\* past the bytes a short read filled).
Bytes(seq) == [head |-> seq, pad |-> 0]
Vec(f, b) == [head |-> BufSlice(f, b, 0, b.n), pad |-> ToNat(b.len) - b.n]

\* flate2's DeflateDecoder::read_to_end on a raw DEFLATE stream.  The model's
\* archives hold streams of one final stored block (01, LEN, ~LEN, bytes);
\* a stream that is cut short or is anything else is a decode error.
Inflate(f, c) ==
    LET len == LE16(BufByte(f, c, 1), BufByte(f, c, 2))
    IN  IF /\ ToNat(c.len) >= 5
           /\ BufByte(f, c, 0) = 1
           /\ LE16(BufByte(f, c, 3), BufByte(f, c, 4)) = 65535 - len
           /\ ToNat(c.len) >= 5 + len
        THEN [ok |-> TRUE, data |-> Bytes(BufSlice(f, c, 5, len))]
        ELSE [ok |-> FALSE]

\* vec![0u8; n as usize] followed by read_at(off, &mut buf), for a buffer the
\* caller hands on as bytes.  An allocation of 2 GiB or more is not modelled
\* as succeeding: the process aborts.
CanAllocate(n) == IsSmall(n)

\* ZipExtractor::extract_to_memory: [status, data | err, reads], status one of
\* "ok", "err", "abort".
extract_to_memory(f, entry) ==
    LET d == get_data_offset(f, entry)
    IN  IF ~d.ok THEN [status |-> "err", err |-> d.err, reads |-> d.reads]
        ELSE
        CASE entry.compression_method.tag = "Stored" ->
                IF ~CanAllocate(entry.uncompressed_size)
                THEN [status |-> "abort", reads |-> d.reads]
                ELSE [status |-> "ok",
                      data   |-> Vec(f, Buffer(f, U64(d.offset),
                                               entry.uncompressed_size)),
                      reads  |-> d.reads \o <<[off |-> U64(d.offset),
                                               len |-> entry.uncompressed_size]>>]
          [] entry.compression_method.tag = "Deflate" ->
                IF ~CanAllocate(entry.compressed_size)
                THEN [status |-> "abort", reads |-> d.reads]
                ELSE
                LET rd == d.reads \o <<[off |-> U64(d.offset),
                                        len |-> entry.compressed_size]>>
                    compressed == Buffer(f, U64(d.offset), entry.compressed_size)
                    decoded    == Inflate(f, compressed)
                IN  IF ~CanAllocate(entry.uncompressed_size)
                    THEN [status |-> "abort", reads |-> rd]
                    ELSE IF decoded.ok
                    THEN [status |-> "ok", data |-> decoded.data, reads |-> rd]
                    ELSE [status |-> "err", err |-> Err("deflate decode error"),
                          reads |-> rd]
          [] OTHER ->
                [status |-> "err",
                 err    |-> [msg |-> "Unsupported compression method",
                             arg |-> entry.compression_method.v],
                 reads  |-> d.reads]

\* A path is its components; output_path.parent() drops the last one.
Parent(path) == SubSeq(path, 1, Len(path) - 1)

\* fs::create_dir_all(parent): the directory and every ancestor of it.
create_dir_all(dirs, parent) == dirs \cup {SubSeq(parent, 1, k) : k \in 1..Len(parent)}

NoFile == [head |-> <<>>, pad |-> -1]

\* write_all on a file opened without truncation: what was there past the
\* written bytes stays.
FileOpenWrite(old, data) ==
    IF old = NoFile \/ old.pad # 0 \/ data.pad # 0 \/ Len(old.head) <= Len(data.head)
    THEN data
    ELSE [head |-> data.head \o SubSeq(old.head, Len(data.head) + 1, Len(old.head)),
          pad  |-> 0]

\* fs::File::create(output_path) then write_all(&data): the file is created
\* or truncated, and holds data.
FileCreateWrite(old, data) == data

----------------------------------------------------------------------------
(* The sources the model opens: archives built record by record as APPNOTE   *)
(* lays them out, with the variations the parser has to cope with, and       *)
(* sources that are no archive.                                              *)

MaxEntries == 2      \* members of a generated archive
MaxContent == 2      \* length of a stored member's content
MaxComment == 24     \* length of a short archive comment
MaxOps == 2          \* operations (list, extract) started on one parser

Zero(n) == [k \in 1..n |-> 0]
Fill(n, v) == [k \in 1..n |-> v]

RECURSIVE Concat(_)
Concat(ss) == IF ss = <<>> THEN <<>> ELSE ss[1] \o Concat(Tail(ss))

\* A member: name (Central Directory), lfh_name and lfh_extra (Local File
\* Header), method, content (the original bytes), data (the bytes stored in
\* the archive), pre (extra records of the CDFH before any ZIP64 record),
\* mask (which of u, c, l are 0xFFFFFFFF in the CDFH), packed (which of them
\* the 0x0001 record carries; the record is there when mask is not empty),
\* post (extra records after it), cd_comment.
Member(name, method, content, data) ==
    [name |-> name, lfh_name |-> name, lfh_extra |-> <<>>, method |-> method,
     content |-> content, data |-> data, pre |-> <<>>, mask |-> {},
     packed |-> {}, post |-> <<>>, cd_comment |-> <<>>]

LfhBytes(m) ==
    LFH_SIGNATURE \o <<20, 0>> \o <<0, 0>> \o Bytes16(m.method) \o <<0, 96>>
        \o <<33, 0>> \o <<1, 2, 3, 4>>
        \o Bytes32(Len(m.data)) \o Bytes32(Len(m.content))
        \o Bytes16(Len(m.lfh_name)) \o Bytes16(Len(m.lfh_extra))
        \o m.lfh_name \o m.lfh_extra

LocalBytes(m) == LfhBytes(m) \o m.data

Zip64Extra(m, at) ==
    IF m.mask = {} /\ m.packed = {} THEN <<>>
    ELSE <<1, 0>> \o Bytes16(8 * Cardinality(m.packed))
           \o (IF "u" \in m.packed THEN U64(Len(m.content)) ELSE <<>>)
           \o (IF "c" \in m.packed THEN U64(Len(m.data)) ELSE <<>>)
           \o (IF "l" \in m.packed THEN U64(at) ELSE <<>>)

CdExtra(m, at) == m.pre \o Zip64Extra(m, at) \o m.post

CdfhBytes(m, at) ==
    CDFH_SIGNATURE \o <<20, 3>> \o <<20, 0>> \o <<0, 0>> \o Bytes16(m.method)
        \o <<0, 96>> \o <<33, 0>> \o <<1, 2, 3, 4>>
        \o (IF "c" \in m.mask THEN SENTINEL32 ELSE Bytes32(Len(m.data)))
        \o (IF "u" \in m.mask THEN SENTINEL32 ELSE Bytes32(Len(m.content)))
        \o Bytes16(Len(m.name)) \o Bytes16(Len(CdExtra(m, at)))
        \o Bytes16(Len(m.cd_comment)) \o <<0, 0>> \o <<0, 0>> \o <<0, 0, 0, 0>>
        \o (IF "l" \in m.mask THEN SENTINEL32 ELSE Bytes32(at))
        \o m.name \o CdExtra(m, at) \o m.cd_comment

RECURSIVE LocalPart(_)
LocalPart(ms) == IF ms = <<>> THEN <<>> ELSE LocalBytes(ms[1]) \o LocalPart(Tail(ms))

RECURSIVE CdPart(_, _)
CdPart(ms, at) ==
    IF ms = <<>> THEN <<>>
    ELSE CdfhBytes(ms[1], at) \o CdPart(Tail(ms), at + Len(LocalBytes(ms[1])))

\* The 22 bytes of an EOCD; the comment follows it.
EocdBytes(disk_entries, total_entries, cd_size4, cd_offset4, comment_len) ==
    EOCD_SIGNATURE \o <<0, 0>> \o <<0, 0>> \o Bytes16(disk_entries)
        \o Bytes16(total_entries) \o cd_size4 \o cd_offset4
        \o Bytes16(comment_len % 65536)

LocatorBytes(off8) == LOCATOR_SIGNATURE \o <<0, 0, 0, 0>> \o off8 \o <<1, 0, 0, 0>>

Eocd64Bytes(total8, cd_size8, cd_offset8) ==
    EOCD64_SIGNATURE \o U64(44) \o <<45, 0>> \o <<45, 0>> \o <<0, 0, 0, 0>>
        \o <<0, 0, 0, 0>> \o total8 \o total8 \o cd_size8 \o cd_offset8

\* What the model remembers of how a source was built.
Built(valid, ms, eocd_at, comment_len) ==
    [valid |-> valid, members |-> ms, eocd_at |-> eocd_at, comment_len |-> comment_len]

\* A member's 0x0001 record packs exactly the fields that overflowed.
WellFormed(ms) == \A k \in 1..Len(ms) : ms[k].packed = ms[k].mask

\* A plain archive: members, Central Directory, EOCD, comment.
PlainArchive(ms, comment) ==
    LET local == LocalPart(ms)
        cdir  == CdPart(ms, 0)
    IN  [file    |-> local \o cdir
                     \o EocdBytes(Len(ms), Len(ms), Bytes32(Len(cdir)),
                                  Bytes32(Len(local)), Len(comment))
                     \o comment,
         archive |-> Built(WellFormed(ms) /\ Len(comment) <= MAX_COMMENT_SIZE,
                           ms, Len(local) + Len(cdir), Len(comment))]

\* A ZIP64 archive: the EOCD fields named in s hold the sentinel and the
\* ZIP64 EOCD and its Locator precede the EOCD.
Zip64Archive(ms, s) ==
    LET local == LocalPart(ms)
        cdir  == CdPart(ms, 0)
        at64  == Len(local) + Len(cdir)
    IN  [file    |-> local \o cdir
                     \o Eocd64Bytes(U64(Len(ms)), U64(Len(cdir)), U64(Len(local)))
                     \o LocatorBytes(U64(at64))
                     \o EocdBytes(IF "disk_entries" \in s THEN SENTINEL16 ELSE Len(ms),
                                  IF "total_entries" \in s THEN SENTINEL16 ELSE Len(ms),
                                  IF "cd_size" \in s THEN SENTINEL32
                                  ELSE Bytes32(Len(cdir)),
                                  IF "cd_offset" \in s THEN SENTINEL32
                                  ELSE Bytes32(Len(local)),
                                  0),
         archive |-> Built(WellFormed(ms), ms, at64 + EOCD64_MIN_SIZE + LOCATOR_SIZE, 0)]


\* Archives whose EOCD declares total entries, a Central Directory size and
\* a Central Directory offset that need not be the true ones.
DeclaredArchives(ms) ==
    LET local == LocalPart(ms)
        cdir  == CdPart(ms, 0)
        size  == Len(local) + Len(cdir) + EOCD_SIZE
    IN  {[file    |-> local \o cdir
                      \o EocdBytes(total, total, Bytes32(cd_size), Bytes32(cd_offset), 0),
          archive |-> Built(total = Len(ms) /\ cd_size = Len(cdir)
                                /\ cd_offset = Len(local),
                            ms, Len(local) + Len(cdir), 0)] :
            total \in 0..(Len(ms) + 1),
            cd_size \in {0, Len(cdir) - 1, Len(cdir), Len(cdir) + 1},
            cd_offset \in {Len(local), Len(local) + 1, size, size + 1}}

\* The members.
Content(n) == [k \in 1..n |-> 96 + k]

StoredMember(n) == Member(<<97>>, 0, Content(n), Content(n))

\* The Local File Header carries an extra field the Central Directory lacks.
LfhExtraMember ==
    [Member(<<98>>, 0, Content(2), Content(2)) EXCEPT
        !.lfh_extra = <<85, 84, 1, 0, 7>>, !.cd_comment = <<33>>]

\* The Local File Header carries a longer name than the Central Directory.
LfhNameMember ==
    [Member(<<110>>, 0, Content(1), Content(1)) EXCEPT !.lfh_name = <<110, 110, 110>>]

DirMember == Member(<<100, 47>>, 0, <<>>, <<>>)

\* "xyz" as one final stored block of raw DEFLATE.
DeflateMember == Member(<<99>>, 8, <<120, 121, 122>>, <<1, 3, 0, 252, 255, 120, 121, 122>>)

\* Method 12 (bzip2).
BzipMember == Member(<<122>>, 12, <<1, 2>>, <<66, 90, 104>>)

\* A stored member whose content is the 22 bytes of an empty EOCD.
PayloadSigMember ==
    Member(<<112>>, 0, EOCD_SIGNATURE \o Zero(18), EOCD_SIGNATURE \o Zero(18))

OtherExtra == <<85, 84, 8, 0, 1, 2, 3, 4, 5, 6, 7, 8>>

Zip64Members ==
    {[Member(<<119>>, 0, Content(2), Content(2)) EXCEPT
        !.mask = mask, !.packed = packed, !.pre = pre, !.post = post] :
        mask \in SUBSET {"u", "c", "l"}, packed \in SUBSET {"u", "c", "l"},
        pre \in {<<>>, OtherExtra}, post \in {<<>>, OtherExtra}}

Kinds == {StoredMember(MaxContent), LfhExtraMember, DirMember, DeflateMember, BzipMember}

SeqsUpTo(S, n) == UNION {[1..k -> S] : k \in 0..n}

\* Archive comments: filler; a comment holding the EOCD signature with a
\* length claim that is wrong; a comment holding a whole EOCD record whose
\* length claim is right (decoy), before k more bytes.
Filler(n) == Fill(n, 65)
SigComment(n) == EOCD_SIGNATURE \o Filler(n)
DecoyComment(lead, k) ==
    Filler(lead) \o EocdBytes(0, 0, Bytes32(0), Bytes32(0), k) \o Filler(k)

Comments ==
    {Filler(n) : n \in 1..MaxComment}
        \cup {SigComment(n) : n \in 0..(MaxComment - 4)}
        \cup {DecoyComment(lead, MaxComment - EOCD_SIZE - lead) :
                  lead \in 0..(MaxComment - EOCD_SIZE)}
        \cup {Filler(100), Filler(MAX_COMMENT_SIZE), Filler(70 * 1024),
              DecoyComment(MAX_COMMENT_SIZE - EOCD_SIZE - 3, 3)}

EocdFields == {"disk_entries", "total_entries", "cd_size", "cd_offset"}

\* ZIP64 archives that are damaged: the Locator's or the ZIP64 EOCD's
\* signature is overwritten, or the Locator points elsewhere.
Overwrite(f, at, v) == [f EXCEPT ![at + 1] = v]

RECURSIVE Patch(_, _, _)
Patch(f, at, bytes) ==
    IF bytes = <<>> THEN f ELSE Patch(Overwrite(f, at, bytes[1]), at + 1, Tail(bytes))

Damaged(a) == [file |-> a.file, archive |-> [a.archive EXCEPT !.valid = FALSE]]

Zip64Damaged(ms, s) ==
    LET a   == Zip64Archive(ms, s)
        loc == a.archive.eocd_at - LOCATOR_SIZE
        e64 == loc - EOCD64_MIN_SIZE
    IN  {Damaged([a EXCEPT !.file = Overwrite(a.file, loc, 0)]),
         Damaged([a EXCEPT !.file = Overwrite(a.file, e64, 0)]),
         Damaged([a EXCEPT !.file = Patch(a.file, loc + 8, U64(0))]),
         Damaged([a EXCEPT !.file = Patch(a.file, loc + 8, U64(Len(a.file)))]),
         Damaged([a EXCEPT !.file = Patch(a.file, loc + 8, <<0, 0, 0, 0, 1, 0, 0, 0>>)]),
         Damaged([a EXCEPT !.file = Patch(a.file, loc + 8, Fill(8, 255))]),
         \* the ZIP64 EOCD declares sizes of 2^32 and more
         Damaged([a EXCEPT !.file = Patch(a.file, e64 + 32, <<0, 0, 0, 0, 1, 0, 0, 0>>)]),
         Damaged([a EXCEPT !.file = Patch(a.file, e64 + 40, <<0, 0, 0, 0, 1, 0, 0, 0>>)]),
         Damaged([a EXCEPT !.file = Patch(a.file, e64 + 48, <<0, 0, 0, 0, 1, 0, 0, 0>>)]),
         Damaged([a EXCEPT !.file = Patch(a.file, e64 + 48, Fill(8, 255))])}

\* An EOCD that asks for ZIP64 with fewer than 20 bytes before it.
Zip64NoRoom ==
    {[file    |-> Zero(n) \o EocdBytes(0, SENTINEL16, Bytes32(0), Bytes32(0), 0),
      archive |-> Built(FALSE, <<>>, n, 0)] : n \in {0, 1, 19}}

\* Sources that are no archive: runs of zero bytes, and the EOCD signature
\* followed by too little (18 zero bytes after it make an empty archive).
NoArchive ==
    {[file |-> Zero(n), archive |-> Built(FALSE, <<>>, 0, 0)] : n \in 0..(EOCD_SIZE + 2)}
        \cup {[file |-> EOCD_SIGNATURE \o Zero(n),
               archive |-> Built(n = EOCD_SIZE - 4, <<>>, 0, 0)] : n \in 0..EOCD_SIZE}

\* One byte of an archive overwritten.
FuzzValues == {0, 255}

Fuzzed(a) ==
    {Damaged([a EXCEPT !.file = Overwrite(a.file, at, v)]) :
        at \in 0..(Len(a.file) - 1), v \in FuzzValues}

Inputs ==
    {PlainArchive(ms, <<>>) : ms \in SeqsUpTo(Kinds, MaxEntries)}
        \cup {PlainArchive(<<StoredMember(n)>>, <<>>) : n \in 0..MaxContent}
        \cup {PlainArchive(<<StoredMember(1)>>, c) : c \in Comments}
        \cup {PlainArchive(<<PayloadSigMember>>, c) : c \in {<<>>, Filler(3)}}
        \cup {PlainArchive(ms, <<>>) : ms \in {<<LfhNameMember>>,
                                                <<LfhNameMember, StoredMember(1)>>}}
        \cup {PlainArchive(<<StoredMember(1), m>>, <<>>) : m \in Zip64Members}
        \cup {Zip64Archive(ms, s) : ms \in {<<>>, <<StoredMember(1), DirMember>>},
                                    s \in SUBSET EocdFields}
        \cup UNION {Zip64Damaged(<<StoredMember(1)>>, s) :
                        s \in {{"total_entries"}, {"cd_offset"}}}
        \cup Zip64NoRoom
        \cup NoArchive
        \cup DeclaredArchives(<<StoredMember(1), DeflateMember>>)
        \cup Fuzzed(PlainArchive(<<LfhExtraMember>>, <<>>))
        \cup Fuzzed(PlainArchive(<<PayloadSigMember>>, <<>>))
        \cup Fuzzed(PlainArchive(<<StoredMember(1), DirMember>>, <<>>))

----------------------------------------------------------------------------
(* The state machine *)

Paths == {<<"out">>, <<"sub", "out">>}

\* What the output file holds before any extraction.
OldContent == Bytes(Fill(10, 9))

NoResult == [status |-> "none", err |-> Err(""), entries |-> <<>>]
NoEocd == [ok |-> FALSE]
NoCd == [off |-> U64(0), size |-> U64(0), total |-> U64(0)]
NoBuffer == [base |-> 0, n |-> 0, len |-> U64(0)]
NoLast == [op |-> "none", index |-> 0, status |-> "none", err |-> Err(""),
           data |-> Bytes(<<>>), path |-> <<>>]

\* No function of structures.rs is being applied.
NoRet == [op |-> "none"]
NoPure == arg = 0 /\ ret = NoRet

\* ZipParser::new, ZipExtractor::new, and the file system and standard
\* output as they are before any operation.
ParserNew ==
    /\ pc = "idle"
    /\ reads = <<>>
    /\ eocd = NoEocd
    /\ eocd_offset = 0
    /\ zip64 = FALSE
    /\ cd = NoCd
    /\ cd_data = NoBuffer
    /\ cursor = 0
    /\ starts = <<>>
    /\ acc = <<>>
    /\ result = NoResult
    /\ nops = 0
    /\ last = NoLast
    /\ fs_files = [p \in Paths |-> IF p = <<"out">> THEN OldContent ELSE NoFile]
    /\ fs_dirs = {}
    /\ stdout = <<>>

\* No source is open in the parser.
NoSource == file = <<>> /\ archive = Built(FALSE, <<>>, 0, 0) /\ ParserNew

----------------------------------------------------------------------------
(* io/http.rs: HttpRangeReader *)

MAX_RETRY == 10         \* max_retry: 10
BACKOFF_MS == 500       \* 500 * retry_count

\* a + b on u64 bytes, with whether it overflowed.
RECURSIVE AddFrom(_, _, _, _)
AddFrom(a, b, k, carry) ==
    IF k > 8 THEN [bytes |-> <<>>, over |-> carry = 1]
    ELSE LET t == a[k] + b[k] + carry
             r == AddFrom(a, b, k + 1, t \div 256)
         IN  [bytes |-> <<t % 256>> \o r.bytes, over |-> r.over]

Add64(a, b) == AddFrom(a, b, 1, 0)

\* a - b on u64 bytes, with whether it underflowed.
RECURSIVE SubFrom(_, _, _, _)
SubFrom(a, b, k, borrow) ==
    IF k > 8 THEN [bytes |-> <<>>, over |-> borrow = 1]
    ELSE LET t == a[k] - b[k] - borrow
             r == SubFrom(a, b, k + 1, IF t < 0 THEN 1 ELSE 0)
         IN  [bytes |-> <<(t + 256) % 256>> \o r.bytes, over |-> r.over]

Sub64(a, b) == SubFrom(a, b, 1, 0)

Min64(a, b) == IF U64Lt(b, a) THEN b ELSE a

\* read_at: `end = offset + buf.len() - 1; end = end.min(self.size - 1);
\* expected_size = end - offset + 1`.  A debug build panics on the overflow
\* of any of the four operations, a release build wraps.
RangeOf(offset, len, sz, build) ==
    LET s1 == Add64(offset, U64(len))
        s2 == Sub64(s1.bytes, U64(1))
        s3 == Sub64(sz, U64(1))
        e  == Min64(s2.bytes, s3.bytes)
        d1 == Sub64(e, offset)
        d2 == Add64(d1.bytes, U64(1))
        over == s1.over \/ s2.over \/ s3.over \/ d1.over \/ d2.over
    IN  IF build = "panic" /\ over
        THEN [ok |-> FALSE, over |-> TRUE]
        ELSE [ok |-> TRUE, over |-> over, end |-> e, expected |-> d2.bytes]

CallOk(n) == [status |-> "ok", n |-> n, err |-> Err("")]
CallErr(err) == [status |-> "err", n |-> 0, err |-> err]
CallPanic == [status |-> "panic", n |-> 0, err |-> Err("")]

\* One read_at call: its arguments, its locals (end, expected, received,
\* retry_count), the request in flight or last sent (req) and the first one
\* sent (first), the last backoff slept, whether a 206 response has followed
\* a transient failure (interrupted; kept for the record, the code has no
\* such flag), whether the number of requests it has sent is odd (so that
\* one request after another is a step even when nothing else changes),
\* and what the call returned.  The locals end with the call.
NoCall ==
    [pc |-> "idle", build |-> "wrap", offset |-> U64(0), len |-> 0, end |-> U64(0),
     expected |-> U64(0), received |-> 0, retry_count |-> 0, first |-> <<>>,
     req |-> <<>>, slept |-> 0, interrupted |-> FALSE, odd |-> FALSE,
     result |-> [status |-> "none", n |-> 0, err |-> Err("")]]

\* A sleep of the same length before every retry.
BackoffFlat(retry_count) == BACKOFF_MS

\* Duration::from_millis(500 * retry_count as u64), in milliseconds.
Backoff(retry_count) == BACKOFF_MS * retry_count

Return(c, res) ==
    [NoCall EXCEPT !.offset = c.offset, !.len = c.len, !.first = c.first,
                   !.result = res]

Unwind(c) == [Return(c, CallPanic) EXCEPT !.pc = "panicked"]

\* The head of `while received < expected_size`: the next request is sent,
\* or the call returns Ok(received).
Loop(c) ==
    IF U64Lt(U64(c.received), c.expected)
    THEN LET current_start == Add64(c.offset, U64(c.received))
             range == [start |-> current_start.bytes, end |-> c.end]
         IN  IF current_start.over /\ c.build = "panic"
             THEN Unwind(c)
             ELSE [c EXCEPT !.pc = "sent", !.req = <<range>>, !.odd = ~@,
                            !.first = IF c.first = <<>> THEN <<range>> ELSE c.first]
    ELSE Return(c, CallOk(c.received))

\* What a call hands to its caller when it has ended.
Credit(c) == IF c.pc = "idle" /\ c.result.status = "ok" THEN c.result.n ELSE 0

MaxSize == 2        \* size of the remote source
MaxLen == 2         \* length of the buffer given to read_at
MaxBody == 3        \* length of a response body
MaxCalls == 2       \* read_at calls made on one reader

Sizes == {U64(n) : n \in 0..MaxSize}
Offsets == {U64(n) : n \in 0..(MaxSize + 1)} \cup {Fill(8, 255)}

NoTally == [i \in 1..2 |-> 0]
NoPeer == peer = NoCall /\ tally = NoTally

NoHttp ==
    /\ http_size = U64(0)
    /\ transferred_bytes = 0
    /\ call = NoCall
    /\ returned = 0
    /\ ncalls = 0
    /\ NoPeer

\* store(chunk_len) in place of fetch_add(chunk_len).
Store(counter, n) == n

\* self.transferred_bytes.fetch_add(chunk_len as u64, Ordering::Relaxed):
\* one atomic read-modify-write.
FetchAdd(counter, n) == counter + n

\* read_at from its entry to its first request, or to its return.
Entered(offset, len, build, sz) ==
    LET r == RangeOf(offset, len, sz, build)
        \* the build shows only once an operation has overflowed
        c == [NoCall EXCEPT !.build = IF len > 0 /\ r.over THEN build ELSE "wrap",
                            !.offset = offset, !.len = len]
    IN  IF len = 0 THEN Return(c, CallOk(0))
        ELSE IF ~r.ok THEN Unwind(c)
        ELSE Loop([c EXCEPT !.end = r.end, !.expected = r.expected])

\* bytes.len().min(expected_size - received) for a body of k bytes.
ChunkLen(c, k) ==
    Min(k, IF IsSmall(c.expected) THEN ToNat(c.expected) - c.received ELSE k)

\* buf[received..received + chunk_len] is out of range.
Overrun(c, k) == c.received + ChunkLen(c, k) > c.len

\* The call after a 206 response with a body of k bytes.
Copied(c, k) ==
    IF Overrun(c, k) THEN Unwind(c)
    ELSE Loop([c EXCEPT !.received = @ + ChunkLen(c, k),
                        !.interrupted = @ \/ c.retry_count > 0])

\* The call after a response whose status is not 206.
Refused(c, code) ==
    Return(c, CallErr([msg |-> "HTTP request failed with status", arg |-> code]))

\* The call after a send error that is a timeout or a connect error.
Retried(c) ==
    LET retry_count == c.retry_count + 1
    IN  IF retry_count >= MAX_RETRY
        THEN Return(c, CallErr(Err("Max retries exceeded")))
        ELSE Loop([c EXCEPT !.retry_count = retry_count,
                            !.slept = Backoff(retry_count)])

\* The call after any other send error.
Broken(c) == Return(c, CallErr(Err("transport error")))

\* The call after resp.bytes().await failed: `?` returns the error.
BodyFailed(c, timeout) ==
    Return(c, CallErr([msg |-> "error decoding response body",
                       arg |-> IF timeout THEN 1 ELSE 0]))

\* HttpRangeReader::new after a HEAD that gave Content-Length.
InitHttp ==
    /\ NoSource
    /\ NoPure
    /\ http_size \in Sizes
    /\ transferred_bytes = 0
    /\ call = NoCall
    /\ returned = 0
    /\ ncalls = 0
    /\ NoPeer

\* read_at is entered: up to the first request, or to its return.
HttpReadAt(offset, len, build) ==
    /\ call.pc = "idle"
    /\ ncalls < MaxCalls
    /\ ncalls' = ncalls + 1
    /\ call' = Entered(offset, len, build, http_size)
    /\ returned' = returned + Credit(call')
    /\ UNCHANGED <<zipvars, purevars, sharedvars, http_size, transferred_bytes>>

\* Ok(resp) with status 206, and a body of k bytes.
HttpBody(k) ==
    /\ call.pc = "sent"
    /\ call' = Copied(call, k)
    /\ transferred_bytes' = IF Overrun(call, k) THEN transferred_bytes
                            ELSE FetchAdd(transferred_bytes, ChunkLen(call, k))
    /\ returned' = returned + Credit(call')
    /\ UNCHANGED <<zipvars, purevars, sharedvars, http_size, ncalls>>

\* Ok(resp) with a status that is not 206.
HttpStatus(code) ==
    /\ call.pc = "sent"
    /\ call' = Refused(call, code)
    /\ UNCHANGED <<zipvars, purevars, sharedvars, http_size, transferred_bytes, returned, ncalls>>

\* Err(e) from send() with e.is_timeout() || e.is_connect().
HttpTransient ==
    /\ call.pc = "sent"
    /\ call' = Retried(call)
    /\ UNCHANGED <<zipvars, purevars, sharedvars, http_size, transferred_bytes, returned, ncalls>>

\* Any other Err(e) from send().
HttpTransportError ==
    /\ call.pc = "sent"
    /\ call' = Broken(call)
    /\ UNCHANGED <<zipvars, purevars, sharedvars, http_size, transferred_bytes, returned, ncalls>>

\* Status 206, then resp.bytes().await fails (a timeout or anything else):
\* `?` returns the error.
HttpBodyError(timeout) ==
    /\ call.pc = "sent"
    /\ call' = BodyFailed(call, timeout)
    /\ UNCHANGED <<zipvars, purevars, sharedvars, http_size, transferred_bytes, returned, ncalls>>

NextHttp ==
    \/ \E offset \in Offsets, len \in 0..MaxLen, build \in {"panic", "wrap"} :
            HttpReadAt(offset, len, build)
    \/ \E k \in 0..MaxBody : HttpBody(k)
    \/ \E code \in {200, 416, 503} : HttpStatus(code)
    \/ HttpTransient
    \/ HttpTransportError
    \/ \E timeout \in BOOLEAN : HttpBodyError(timeout)

SpecHttp == InitHttp /\ [][NextHttp]_vars

\* Every request is answered: by a response, by an error, or by the client's
\* 30-second timeout.
SpecHttpFair == SpecHttp /\ WF_vars(NextHttp)

----------------------------------------------------------------------------
(* io/http.rs: two tasks share one HttpRangeReader (&self, Send + Sync) *)

\* Each task makes one read_at call that begins inside the source; the
\* steps of the two calls interleave at their await points.
Tasks == {1, 2}

TaskCall(i) == IF i = 1 THEN call ELSE peer

\* The call without the two fields kept for the record of a single call.
Locals(c) == [c EXCEPT !.interrupted = FALSE, !.odd = FALSE]

\* Task i's call becomes c; the locals of the other call are its own.
TaskStep(i, c) ==
    IF i = 1 THEN call' = Locals(c) /\ peer' = peer
    ELSE peer' = Locals(c) /\ call' = call

InitShared ==
    /\ NoSource
    /\ NoPure
    /\ http_size \in Sizes \ {U64(0)}
    /\ transferred_bytes = 0
    /\ call = NoCall
    /\ returned = 0
    /\ ncalls = 0
    /\ NoPeer

SharedReadAt(i, offset, len) ==
    /\ TaskCall(i) = NoCall
    /\ U64Lt(offset, http_size)
    /\ TaskStep(i, Entered(offset, len, "wrap", http_size))
    /\ UNCHANGED <<zipvars, purevars, http_size, transferred_bytes, returned, ncalls, tally>>

SharedBody(i, k) ==
    /\ TaskCall(i).pc = "sent"
    /\ TaskStep(i, Copied(TaskCall(i), k))
    /\ transferred_bytes' = IF Overrun(TaskCall(i), k) THEN transferred_bytes
                            ELSE FetchAdd(transferred_bytes, ChunkLen(TaskCall(i), k))
    /\ tally' = [tally EXCEPT ![i] =
                    IF Overrun(TaskCall(i), k) THEN @ ELSE @ + ChunkLen(TaskCall(i), k)]
    /\ UNCHANGED <<zipvars, purevars, http_size, returned, ncalls>>

SharedStatus(i, code) ==
    /\ TaskCall(i).pc = "sent"
    /\ TaskStep(i, Refused(TaskCall(i), code))
    /\ UNCHANGED <<zipvars, purevars, http_size, transferred_bytes, returned, ncalls, tally>>

SharedTransient(i) ==
    /\ TaskCall(i).pc = "sent"
    /\ TaskStep(i, Retried(TaskCall(i)))
    /\ UNCHANGED <<zipvars, purevars, http_size, transferred_bytes, returned, ncalls, tally>>

SharedTransportError(i) ==
    /\ TaskCall(i).pc = "sent"
    /\ TaskStep(i, Broken(TaskCall(i)))
    /\ UNCHANGED <<zipvars, purevars, http_size, transferred_bytes, returned, ncalls, tally>>

SharedBodyError(i, timeout) ==
    /\ TaskCall(i).pc = "sent"
    /\ TaskStep(i, BodyFailed(TaskCall(i), timeout))
    /\ UNCHANGED <<zipvars, purevars, http_size, transferred_bytes, returned, ncalls, tally>>

NextShared ==
    \/ \E i \in Tasks, offset \in {U64(0), U64(1)}, len \in 1..MaxLen :
            SharedReadAt(i, offset, len)
    \/ \E i \in Tasks, k \in 0..MaxBody : SharedBody(i, k)
    \/ \E i \in Tasks : SharedStatus(i, 503)
    \/ \E i \in Tasks : SharedTransient(i)
    \/ \E i \in Tasks : SharedTransportError(i)
    \/ \E i \in Tasks : SharedBodyError(i, TRUE)

SpecShared == InitShared /\ [][NextShared]_vars

----------------------------------------------------------------------------
(* The functions of structures.rs on 16-bit values *)

InitPure ==
    /\ NoSource
    /\ NoHttp
    /\ arg \in 0..SENTINEL16
    /\ ret = NoRet

ModTime ==
    /\ ret = NoRet
    /\ ret' = [op |-> "mod_time", val |-> mod_time(arg)]
    /\ UNCHANGED <<zipvars, httpvars, arg>>

ModDate ==
    /\ ret = NoRet
    /\ ret' = [op |-> "mod_date", val |-> mod_date(arg)]
    /\ UNCHANGED <<zipvars, httpvars, arg>>

RoundTrip ==
    /\ ret = NoRet
    /\ ret' = [op |-> "from_u16",
               val |-> [method |-> from_u16(arg), back |-> as_u16(from_u16(arg))]]
    /\ UNCHANGED <<zipvars, httpvars, arg>>

NextPure == ModTime \/ ModDate \/ RoundTrip

SpecPure == InitPure /\ [][NextPure]_vars

----------------------------------------------------------------------------
(* main.rs: list_files, from the entries the extractor returned *)

MaxAmount == 2
MaxListed == 2

\* 2^63, a size that only a ZIP64 record can carry.
Huge == <<0, 0, 0, 0, 0, 0, 0, 128>>

Amounts == {U64(n) : n \in 0..MaxAmount} \cup {Huge}

\* a * m on u64 bytes for a small m, with whether it overflowed.
RECURSIVE MulFrom(_, _, _, _)
MulFrom(a, m, k, carry) ==
    IF k > 8 THEN [bytes |-> <<>>, over |-> carry > 0]
    ELSE LET t == a[k] * m + carry
             r == MulFrom(a, m, k + 1, t \div 256)
         IN  [bytes |-> <<t % 256>> \o r.bytes, over |-> r.over]

Mul64(a, m) == MulFrom(a, m, 1, 0)

\* a / d on u64 bytes by a divisor below 2^23, from the top byte down.
RECURSIVE DivFrom(_, _, _, _)
DivFrom(a, d, k, rem) ==
    IF k < 1 THEN <<>>
    ELSE LET t == rem * 256 + a[k]
         IN  DivFrom(a, d, k - 1, t % d) \o <<t \div d>>

\* a / b on u64 bytes, b # 0: a divisor of 2^63 or more goes into a at most
\* once; the other divisors that sums of Amounts produce are below 2^23.
Div64(a, b) ==
    IF b[8] >= 128 THEN (IF U64Lt(a, b) THEN U64(0) ELSE U64(1))
    ELSE DivFrom(a, ToNat(b), 8, 0)

\* `100 - (compressed * 100 / uncompressed)` when uncompressed > 0, else
\* the text "  0%".  The percentage stands for its text: `{:>4}%` prints
\* different numbers differently.  A build with overflow checks panics when
\* the product overflows or the difference underflows; one without wraps.
Ratio(compressed, uncompressed, build) ==
    IF U64Lt(U64(0), uncompressed)
    THEN LET p == Mul64(compressed, 100)
             q == Div64(p.bytes, uncompressed)
             d == Sub64(U64(100), q)
             over == p.over \/ d.over
         IN  IF build = "panic" /\ over
             THEN [ok |-> FALSE, over |-> TRUE]
             ELSE [ok |-> TRUE, over |-> over, pct |-> d.bytes]
    ELSE [ok |-> TRUE, over |-> FALSE, pct |-> U64(0)]

\* `total += size`: panics or wraps like the ratio.
Accumulate(total, size, build) ==
    LET s == Add64(total, size)
    IN  IF build = "panic" /\ s.over
        THEN [ok |-> FALSE, over |-> TRUE]
        ELSE [ok |-> TRUE, over |-> s.over, sum |-> s.bytes]

\* What list_files has printed and summed so far; over records whether a
\* u64 operation has wrapped (kept for the record, the code has no such flag).
NoListing ==
    [status |-> "ok", rows |-> <<>>, total_uncompressed |-> U64(0),
     total_compressed |-> U64(0), file_count |-> 0, over |-> FALSE,
     summary |-> <<>>]

Panicked(l) == [l EXCEPT !.status = "panic", !.over = TRUE]

\* One turn of `for entry in &entries` in verbose mode: the ratio, the
\* printed row, then the totals when the entry is not a directory.
ListEntry(l, entry, build) ==
    LET r == Ratio(entry.compressed_size, entry.uncompressed_size, build)
        row == [length |-> entry.uncompressed_size,
                size |-> entry.compressed_size, cmpr |-> r.pct]
        tu == Accumulate(l.total_uncompressed, entry.uncompressed_size, build)
        tc == Accumulate(l.total_compressed, entry.compressed_size, build)
    IN  IF ~r.ok THEN Panicked(l)
        ELSE LET printed == [l EXCEPT !.rows = Append(@, row),
                                      !.over = @ \/ r.over]
             IN  IF entry.is_directory THEN printed
                 ELSE IF ~tu.ok THEN Panicked(printed)
                 ELSE IF ~tc.ok THEN Panicked(printed)
                 ELSE [printed EXCEPT !.total_uncompressed = tu.sum,
                                      !.total_compressed = tc.sum,
                                      !.file_count = @ + 1,
                                      !.over = @ \/ tu.over \/ tc.over]

RECURSIVE ListEntries(_, _, _, _)
ListEntries(l, entries, i, build) ==
    IF i > Len(entries) \/ l.status # "ok" THEN l
    ELSE ListEntries(ListEntry(l, entries[i], build), entries, i + 1, build)

\* The summary line after the loop.
ListSummary(l, build) ==
    LET r == Ratio(l.total_compressed, l.total_uncompressed, build)
    IN  IF l.status # "ok" THEN l
        ELSE IF ~r.ok THEN Panicked(l)
        ELSE [l EXCEPT !.over = @ \/ r.over,
                       !.summary = <<[length |-> l.total_uncompressed,
                                      size |-> l.total_compressed,
                                      cmpr |-> r.pct,
                                      files |-> l.file_count]>>]

InitRatio ==
    /\ NoSource
    /\ NoHttp
    /\ ret = NoRet
    /\ \E n \in 1..MaxListed :
        arg \in [1..n -> [compressed_size : Amounts,
                          uncompressed_size : Amounts,
                          is_directory : BOOLEAN]]

\* list_files(extractor, false): one name per line, no arithmetic.
ListFilesSimple ==
    /\ ret = NoRet
    /\ ret' = [op |-> "list_files", verbose |-> FALSE, val |-> NoListing]
    /\ UNCHANGED <<zipvars, httpvars, arg>>

\* list_files(extractor, true).
ListFilesVerbose(build) ==
    /\ ret = NoRet
    /\ ret' = [op |-> "list_files", verbose |-> TRUE,
               val |-> ListSummary(ListEntries(NoListing, arg, 1, build), build)]
    /\ UNCHANGED <<zipvars, httpvars, arg>>

NextRatio ==
    \/ ListFilesSimple
    \/ \E build \in {"panic", "wrap"} : ListFilesVerbose(build)

SpecRatio == InitRatio /\ [][NextRatio]_vars

----------------------------------------------------------------------------
(* The state machine of the parser and the extractor *)
Init ==
    /\ \E a \in Inputs : file = a.file /\ archive = a.archive
    /\ ParserNew
    /\ NoHttp
    /\ NoPure

\* A failure that hands over the entries decoded so far.
ListPartial(err) == [status |-> "err", err |-> err, entries |-> acc]

\* `?` in list_files: the error is the result, the entries vector is dropped.
ListFailed(err) == [status |-> "err", err |-> err, entries |-> <<>>]

\* list_files up to `let (eocd, eocd_offset) = self.find_eocd().await?`
ListFindEocd ==
    /\ pc \in {"idle", "listed", "failed"}
    /\ nops < MaxOps
    /\ nops' = nops + 1
    /\ LET r == find_eocd(file)
       IN  /\ reads' = r.reads
           /\ IF r.ok
              THEN /\ eocd' = r.eocd
                   /\ eocd_offset' = r.offset
                   /\ pc' = "eocd"
                   /\ result' = NoResult
              ELSE /\ eocd' = NoEocd
                   /\ eocd_offset' = 0
                   /\ pc' = "failed"
                   /\ result' = ListFailed(Err(r.err))
    /\ zip64' = FALSE
    /\ cd' = NoCd
    /\ cd_data' = NoBuffer
    /\ cursor' = 0
    /\ starts' = <<>>
    /\ acc' = <<>>
    /\ last' = NoLast
    /\ UNCHANGED <<httpvars, purevars, archive, file, fs_files, fs_dirs, stdout>>

\* list_files: `if eocd.is_zip64() { self.read_zip64_eocd(eocd_offset).await? ... }`
ListReadZip64Eocd ==
    /\ pc = "eocd"
    /\ is_zip64(eocd)
    /\ zip64' = TRUE
    /\ \E build \in {"panic", "wrap"} :
        LET r == read_zip64_eocd(file, eocd_offset, build)
        IN  /\ reads' = reads \o r.reads
            /\ CASE r.status = "ok" ->
                        /\ cd' = [off   |-> r.eocd64.cd_offset,
                                  size  |-> r.eocd64.cd_size,
                                  total |-> r.eocd64.total_entries]
                        /\ pc' = "cdinfo"
                        /\ result' = result
                 [] r.status = "err" ->
                        /\ cd' = cd
                        /\ pc' = "failed"
                        /\ result' = ListFailed(r.err)
                 [] OTHER ->
                        /\ cd' = cd
                        /\ pc' = "aborted"
                        /\ result' = [status |-> "abort",
                                      err |-> Err("attempt to subtract with overflow"),
                                      entries |-> <<>>]
    /\ UNCHANGED <<httpvars, purevars, archive, file, eocd, eocd_offset, cd_data, cursor, starts, acc,
                   nops, last, fs_files, fs_dirs, stdout>>

\* list_files: the else branch, the EOCD's fields `as u64`.
ListUseEocd ==
    /\ pc = "eocd"
    /\ ~is_zip64(eocd)
    /\ zip64' = FALSE
    /\ cd' = [off   |-> Widen32(eocd.cd_offset),
              size  |-> Widen32(eocd.cd_size),
              total |-> U64(eocd.total_entries)]
    /\ pc' = "cdinfo"
    /\ UNCHANGED <<httpvars, purevars, archive, file, reads, eocd, eocd_offset, cd_data, cursor, starts,
                   acc, result, nops, last, fs_files, fs_dirs, stdout>>

\* list_files: the Central Directory read, and the entries vector.
ListReadCentralDirectory ==
    /\ pc = "cdinfo"
    /\ IF ~CanAllocate(cd.size)
       THEN /\ pc' = "aborted"
            /\ result' = [status |-> "abort", err |-> Err("memory allocation failed"),
                          entries |-> <<>>]
            /\ UNCHANGED <<reads, cd_data>>
       ELSE /\ reads' = Append(reads, [off |-> cd.off, len |-> cd.size])
            /\ LET r == read_at(file, cd.off, cd.size)
               IN  IF ~r.ok
                   THEN /\ pc' = "failed"
                        /\ result' = ListFailed(Err(r.err))
                        /\ cd_data' = cd_data
                   ELSE IF ~CanAllocate(cd.total)
                   THEN /\ pc' = "aborted"
                        /\ result' = [status |-> "abort",
                                      err |-> Err("memory allocation failed"),
                                      entries |-> <<>>]
                        /\ cd_data' = r.buf
                   ELSE /\ pc' = "walk"
                        /\ result' = result
                        /\ cd_data' = r.buf
    /\ UNCHANGED <<httpvars, purevars, archive, file, eocd, eocd_offset, zip64, cd, cursor, starts, acc,
                   nops, last, fs_files, fs_dirs, stdout>>

\* list_files: one round of `for _ in 0..total_entries`.
ListParseCdfh ==
    /\ pc = "walk"
    /\ Len(acc) < ToNat(cd.total)
    /\ LET r == parse_cdfh(file, cd_data, cursor)
       IN  IF r.ok
           THEN /\ acc' = Append(acc, r.entry)
                /\ starts' = Append(starts, cursor)
                /\ cursor' = r.pos
                /\ UNCHANGED <<pc, result>>
           ELSE /\ pc' = "failed"
                /\ result' = ListFailed(r.err)
                /\ UNCHANGED <<acc, starts, cursor>>
    /\ UNCHANGED <<httpvars, purevars, archive, file, reads, eocd, eocd_offset, zip64, cd, cd_data, nops,
                   last, fs_files, fs_dirs, stdout>>

\* list_files: `Ok(entries)`.
ListReturn ==
    /\ pc = "walk"
    /\ Len(acc) >= ToNat(cd.total)
    /\ pc' = "listed"
    /\ result' = [status |-> "ok", err |-> Err(""), entries |-> acc]
    /\ UNCHANGED <<httpvars, purevars, archive, file, reads, eocd, eocd_offset, zip64, cd, cd_data, cursor,
                   starts, acc, nops, last, fs_files, fs_dirs, stdout>>

Outcome(op, i, path, r) ==
    [op |-> op, index |-> i, status |-> r.status,
     err |-> IF r.status = "err" THEN r.err ELSE Err(""),
     data |-> IF r.status = "ok" THEN r.data ELSE Bytes(<<>>), path |-> path]

\* A caller extracts entry i of the list it was given.
ExtractToMemory(i) ==
    /\ pc = "listed"
    /\ nops < MaxOps
    /\ nops' = nops + 1
    /\ LET r == extract_to_memory(file, result.entries[i])
       IN  /\ reads' = r.reads
           /\ last' = Outcome("memory", i, <<>>, r)
           /\ pc' = IF r.status = "abort" THEN "aborted" ELSE pc
    /\ UNCHANGED <<httpvars, purevars, archive, file, eocd, eocd_offset, zip64, cd, cd_data, cursor, starts,
                   acc, result, fs_files, fs_dirs, stdout>>

\* ZipExtractor::extract_to_file
ExtractToFile(i, path) ==
    /\ pc = "listed"
    /\ nops < MaxOps
    /\ nops' = nops + 1
    /\ fs_dirs' = IF Parent(path) # <<>> THEN create_dir_all(fs_dirs, Parent(path))
                  ELSE fs_dirs
    /\ LET r == extract_to_memory(file, result.entries[i])
       IN  /\ reads' = r.reads
           /\ last' = Outcome("file", i, path, r)
           /\ pc' = IF r.status = "abort" THEN "aborted" ELSE pc
           /\ fs_files' = IF r.status = "ok"
                          THEN [fs_files EXCEPT ![path] = FileCreateWrite(@, r.data)]
                          ELSE fs_files
    /\ UNCHANGED <<httpvars, purevars, archive, file, eocd, eocd_offset, zip64, cd, cd_data, cursor, starts,
                   acc, result, stdout>>

\* ZipExtractor::extract_to_stdout; stdout is the sequence of the write_all
\* calls made on it.
ExtractToStdout(i) ==
    /\ pc = "listed"
    /\ nops < MaxOps
    /\ nops' = nops + 1
    /\ LET r == extract_to_memory(file, result.entries[i])
       IN  /\ reads' = r.reads
           /\ last' = Outcome("stdout", i, <<>>, r)
           /\ pc' = IF r.status = "abort" THEN "aborted" ELSE pc
           /\ stdout' = IF r.status = "ok" THEN Append(stdout, r.data) ELSE stdout
    /\ UNCHANGED <<httpvars, purevars, archive, file, eocd, eocd_offset, zip64, cd, cd_data, cursor, starts,
                   acc, result, fs_files, fs_dirs>>

Next ==
    \/ ListFindEocd
    \/ ListReadZip64Eocd
    \/ ListUseEocd
    \/ ListReadCentralDirectory
    \/ ListParseCdfh
    \/ ListReturn
    \/ \E i \in 1..Len(result.entries) : ExtractToMemory(i)
    \/ \E i \in 1..Len(result.entries), path \in Paths : ExtractToFile(i, path)
    \/ \E i \in 1..Len(result.entries) : ExtractToStdout(i)

Spec == Init /\ [][Next]_vars

----------------------------------------------------------------------------
(* Locating the End of Central Directory *)

\* The offsets of the source at which an EOCD can be recognised: within the
\* last min(65557, size) bytes, the signature, and a comment-length field
\* equal to the number of bytes that follow the 22-byte record.
EocdCandidates(f) ==
    {i \in MaxOf({0, Len(f) - (MAX_COMMENT_SIZE + EOCD_SIZE)})..(Len(f) - EOCD_SIZE) :
        /\ SubSeq(f, i + 1, i + 4) = EOCD_SIGNATURE
        /\ LE16(f[i + 21], f[i + 22]) = Len(f) - i - EOCD_SIZE}

TailRead(f) == [off |-> U64(Len(f) - EOCD_SIZE), len |-> U64(EOCD_SIZE)]
ScanRead(f) ==
    [off |-> U64(MaxOf({0, Len(f) - (MAX_COMMENT_SIZE + EOCD_SIZE)})),
     len |-> U64(Min(MAX_COMMENT_SIZE + EOCD_SIZE, Len(f)))]

\* find_eocd has returned (list_files has not just failed in it).
Located == pc # "idle" /\ eocd # NoEocd

\* Nothing after the archive's EOCD reads as an EOCD.
NoDecoy == \A i \in EocdCandidates(file) : i <= archive.eocd_at

\* C1: on a valid archive with a zero-length comment find_eocd returns the
\* EOCD at size - 22, and has made exactly one read: 22 bytes at size - 22.
C1_FastPath ==
    (pc # "idle" /\ archive.valid /\ archive.comment_len = 0) =>
        /\ Located
        /\ eocd_offset = Len(file) - EOCD_SIZE
        /\ eocd_offset = archive.eocd_at
        /\ pc = "eocd" => reads = <<TailRead(file)>>

C1_Witness ==
    /\ pc = "eocd"
    /\ archive.valid /\ archive.comment_len = 0 /\ Len(archive.members) = 2
    /\ reads = <<TailRead(file)>>

\* C2 as stated: with a comment of 1..65535 bytes, whatever the comment holds,
\* find_eocd returns the EOCD at size - 22 - L.
C2_AnyComment ==
    (pc # "idle" /\ archive.valid /\ archive.comment_len \in 1..MAX_COMMENT_SIZE) =>
        Located /\ eocd_offset = archive.eocd_at

\* C2: with a comment of 1..65535 bytes find_eocd returns the highest offset
\* at which an EOCD can be recognised; that is the archive's EOCD at
\* size - 22 - L when nothing after it (in the comment) reads as an EOCD.
\* The offset returned never carries a comment-length field different from
\* the number of bytes after the record.
C2_HighestCandidate ==
    /\ (pc # "idle" /\ archive.valid /\ archive.comment_len \in 1..MAX_COMMENT_SIZE) =>
            /\ Located
            /\ eocd_offset = MaxOf(EocdCandidates(file))
            /\ NoDecoy => eocd_offset = archive.eocd_at
    /\ Located =>
            /\ SubSeq(file, eocd_offset + 1, eocd_offset + 4) = EOCD_SIGNATURE
            /\ LE16(file[eocd_offset + 21], file[eocd_offset + 22])
                   = Len(file) - eocd_offset - EOCD_SIZE
            /\ eocd.comment_len = Len(file) - eocd_offset - EOCD_SIZE

\* The comment holds the signature, and the EOCD before it was found.
C2_Witness ==
    /\ pc = "eocd"
    /\ archive.valid /\ archive.comment_len >= 4
    /\ SubSeq(file, archive.eocd_at + EOCD_SIZE + 1, archive.eocd_at + EOCD_SIZE + 4)
           = EOCD_SIGNATURE
    /\ eocd_offset = archive.eocd_at

\* C3: a source with no offset at which an EOCD can be recognised is refused:
\* listing fails with "Not a valid ZIP file" and yields no entries.
C3_NotAZip ==
    (pc # "idle" /\ EocdCandidates(file) = {}) =>
        /\ pc = "failed"
        /\ result = ListFailed(Err("Not a valid ZIP file"))
        /\ acc = <<>>

\* The signature is there, in a member's payload only.
C3_Witness ==
    /\ pc = "failed"
    /\ EocdCandidates(file) = {}
    /\ Len(file) > EOCD_SIZE
    /\ \E i \in 0..(Len(file) - EOCD_SIZE) : SubSeq(file, i + 1, i + 4) = EOCD_SIGNATURE
    /\ result.err = Err("Not a valid ZIP file")

\* A source shorter than an EOCD is refused.
C3_ShortSource ==
    /\ pc = "failed" /\ Len(file) < EOCD_SIZE /\ Len(file) > 0
    /\ result.err = Err("Not a valid ZIP file")

Terminal == pc \in {"listed", "failed", "aborted"}

\* C4 as stated: an archive with a 70 KiB comment is listed.
C4_SeventyKiB ==
    (Terminal /\ archive.comment_len = 70 * 1024) => pc = "listed"

\* C4: an archive with a comment of 1..65535 bytes, nothing in it reading as
\* an EOCD, is not accepted by the 22-byte tail read; the backward scan over
\* the last min(65557, size) bytes finds its EOCD and the listing succeeds.
\* A comment of 70 KiB puts the EOCD out of the scan's reach: the listing
\* fails with "Not a valid ZIP file".
C4_BackwardScan ==
    /\ (archive.valid /\ archive.comment_len \in 1..MAX_COMMENT_SIZE /\ NoDecoy) =>
            /\ pc = "eocd" => /\ reads = <<TailRead(file), ScanRead(file)>>
                              /\ eocd_offset = archive.eocd_at
            /\ Terminal => pc = "listed" /\ Len(result.entries) = Len(archive.members)
    /\ (Terminal /\ archive.comment_len = 70 * 1024) =>
            result = ListFailed(Err("Not a valid ZIP file"))

\* A comment of 100 bytes: found by the scan, and listed.
C4_Witness ==
    /\ pc = "listed"
    /\ archive.valid /\ archive.comment_len = 100
    /\ Len(result.entries) = 1
    /\ reads[2] = ScanRead(file)
    /\ eocd_offset = Len(file) - EOCD_SIZE - 100

\* The longest comment there can be.
C4_MaxComment ==
    /\ pc = "listed"
    /\ archive.valid /\ archive.comment_len = MAX_COMMENT_SIZE
    /\ Len(result.entries) = 1
    /\ reads[2] = ScanRead(file)

C4_TooLong ==
    /\ pc = "failed" /\ archive.comment_len = 70 * 1024

----------------------------------------------------------------------------
(* ZIP64 promotion *)

\* The reads find_eocd made, told from what it returned.
FindReads ==
    IF eocd_offset = Len(file) - EOCD_SIZE /\ eocd.comment_len = 0
    THEN <<TailRead(file)>>
    ELSE <<TailRead(file), ScanRead(file)>>

\* One of the EOCD's four fields holds its sentinel.
Sentinel(e) ==
    \/ e.disk_entries = 65535
    \/ e.total_entries = 65535
    \/ e.cd_size = <<255, 255, 255, 255>>
    \/ e.cd_offset = <<255, 255, 255, 255>>

\* The 8 bytes of the source at offset at.
File64(at) == SubSeq(file, at + 1, at + 8)

\* C5: list promotes to ZIP64 exactly when the EOCD holds a sentinel in
\* disk_entries, total_entries, cd_size or cd_offset.  When it has and the
\* listing goes on, it has read 20 bytes at eocd_offset - 20, then 56 bytes at
\* the offset the Locator holds, and the Central Directory's offset, size and
\* entry count are the 64-bit fields of the record read there.  Otherwise it
\* made neither read and they are the EOCD's fields widened to 64 bits.
C5_Promotion ==
    /\ (Located /\ pc # "eocd") => (zip64 <=> Sentinel(eocd))
    /\ (Located /\ pc = "cdinfo" /\ zip64) =>
            /\ eocd_offset >= LOCATOR_SIZE
            /\ LET at == ToNat(File64(eocd_offset - LOCATOR_SIZE + 8))
               IN  /\ reads = FindReads \o
                          <<[off |-> U64(eocd_offset - LOCATOR_SIZE),
                             len |-> U64(LOCATOR_SIZE)],
                            [off |-> File64(eocd_offset - LOCATOR_SIZE + 8),
                             len |-> U64(EOCD64_MIN_SIZE)]>>
                   /\ cd = [off   |-> File64(at + 48),
                            size  |-> File64(at + 40),
                            total |-> File64(at + 32)]
    /\ (Located /\ pc = "cdinfo" /\ ~zip64) =>
            /\ reads = FindReads
            /\ cd = [off   |-> eocd.cd_offset \o <<0, 0, 0, 0>>,
                     size  |-> eocd.cd_size \o <<0, 0, 0, 0>>,
                     total |-> Bytes16(eocd.total_entries) \o <<0, 0, 0, 0, 0, 0>>]

\* Promoted on the size field alone, with entries to list.
C5_Witness ==
    /\ pc = "cdinfo" /\ zip64
    /\ eocd.cd_size = SENTINEL32 /\ eocd.total_entries = 2 /\ eocd.cd_offset # SENTINEL32
    /\ Len(reads) = 3
    /\ cd.total = U64(2)

C5_NotPromoted ==
    /\ pc = "cdinfo" /\ ~zip64 /\ eocd.total_entries = 2 /\ Len(reads) = 1

----------------------------------------------------------------------------
(* Central Directory entries *)

\* The record parse_cdfh decoded for entry k of the listing under way.
Parsed(k) == parse_cdfh(file, cd_data, starts[k])

\* The three base fields of a CDFH in the order of the replacements, as
\* <<name, CDFH value, value of the entry>>.
Fields(r) ==
    <<[base |-> r.base_u, val |-> r.entry.uncompressed_size],
      [base |-> r.base_c, val |-> r.entry.compressed_size],
      [base |-> r.base_l, val |-> r.entry.lfh_offset]>>

\* How many of the fields before field j hold the sentinel.
SentinelsBefore(r, j) ==
    Cardinality({i \in 1..(j - 1) : Fields(r)[i].base = <<255, 255, 255, 255, 0, 0, 0, 0>>})

\* C6: when the extra blob of a CDFH holds a 0x0001 record, a field whose
\* CDFH value is not 0xFFFFFFFF keeps that value and takes no bytes; the
\* fields that hold the sentinel take the record's bytes 8 by 8 in the order
\* uncompressed size, compressed size, LFH offset (each as long as 8 more
\* bytes are left in the extra blob); the bytes consumed are 8 per field
\* replaced.
C6_Zip64Replacements ==
    \A k \in 1..Len(acc) :
        LET r == Parsed(k)
        IN  r.z64 # <<>> =>
                LET rec == r.z64[1]
                    end == r.extra_at + r.extra_len
                    taken == {j \in 1..3 :
                                 /\ Fields(r)[j].base = <<255, 255, 255, 255, 0, 0, 0, 0>>
                                 /\ rec.at + 8 * (SentinelsBefore(r, j) + 1) <= end}
                IN  /\ \A j \in 1..3 :
                           IF j \in taken
                           THEN Fields(r)[j].val =
                                    BufSlice(file, cd_data,
                                             rec.at + 8 * SentinelsBefore(r, j), 8)
                           ELSE Fields(r)[j].val = Fields(r)[j].base
                    /\ rec.used = 8 * Cardinality(taken)

\* Only lfh_offset holds the sentinel: 8 bytes are consumed, they are it.
C6_Witness ==
    /\ pc = "listed" /\ archive.valid /\ Len(acc) = 2
    /\ LET r == Parsed(2)
       IN  /\ Len(r.z64) = 1
           /\ r.base_u # SENTINEL64 /\ r.base_c # SENTINEL64 /\ r.base_l = SENTINEL64
           /\ r.z64[1].used = 8
           /\ r.entry.lfh_offset = U64(Len(LocalBytes(archive.members[1])))
           /\ r.entry.uncompressed_size = U64(2)

\* All three fields replaced, after another extra record.
C6_AllThree ==
    /\ pc = "listed" /\ archive.valid /\ Len(acc) = 2
    /\ LET r == Parsed(2)
       IN  Len(r.z64) = 1 /\ r.z64[1].used = 24 /\ r.z64[1].at > r.extra_at + 4

\* The offset of member i's Local File Header in an archive as built.
LocalOffset(ms, i) == Len(LocalPart(SubSeq(ms, 1, i - 1)))

\* An extraction has just ended, in a result (not in the process's death).
Extracted == pc = "listed" /\ last.op # "none"

\* The archive is valid and the listing is of its members.
Faithful == archive.valid /\ NoDecoy

\* C7: the data offset is lfh_offset + 30 + n + e, n and e the u16 at bytes 26
\* and 28 of the Local File Header at lfh_offset, whatever lengths the
\* Central Directory declared; the bytes extracted from it for a Stored
\* entry are the member's original content.
C7_DataOffset ==
    Extracted =>
        LET entry == result.entries[last.index]
        IN  /\ reads[1] = [off |-> entry.lfh_offset, len |-> U64(LFH_SIZE)]
            /\ Len(reads) = 2 =>
                   LET at == ToNat(entry.lfh_offset)
                   IN  reads[2].off =
                           U64(at + 30 + LE16(file[at + 27], file[at + 28])
                                  + LE16(file[at + 29], file[at + 30]))
            /\ Faithful =>
                   LET m == archive.members[last.index]
                   IN  /\ entry.lfh_offset = U64(LocalOffset(archive.members, last.index))
                       /\ m.method \in {0, 8} =>
                              /\ Len(reads) = 2
                              /\ reads[2].off =
                                     U64(LocalOffset(archive.members, last.index)
                                             + 30 + Len(m.lfh_name) + Len(m.lfh_extra))
                       /\ m.method = 0 =>
                              last.status = "ok" /\ last.data = Bytes(m.content)

\* The Local File Header's extra field is longer than the Central
\* Directory's, and the content came out.
C7_Witness ==
    /\ Extracted /\ Faithful
    /\ LET m == archive.members[last.index]
       IN  /\ Len(m.lfh_extra) > Len(CdExtra(m, 0))
           /\ m.method = 0
           /\ last.data = Bytes(m.content) /\ m.content # <<>>

\* The Local File Header's name is longer than the Central Directory's.
C7_LongerName ==
    /\ Extracted /\ Faithful
    /\ LET m == archive.members[last.index]
       IN  Len(m.lfh_name) > Len(m.name) /\ last.data = Bytes(m.content)

\* C8: a listing that succeeds returns exactly total_entries entries, the
\* k-th decoded from the k-th header of the Central Directory, each header
\* starting where the one before ended; a listing in which the decoding of an
\* entry fails returns an error and no entries.
C8_AllOrNothing ==
    /\ pc \in {"walk", "listed"} =>
            /\ Len(starts) = Len(acc)
            /\ \A k \in 1..Len(acc) :
                   /\ starts[k] = IF k = 1 THEN 0 ELSE Parsed(k - 1).pos
                   /\ Parsed(k).ok /\ acc[k] = Parsed(k).entry
    /\ pc = "listed" =>
            /\ result.status = "ok"
            /\ result.entries = acc
            /\ U64(Len(result.entries)) = cd.total
            /\ Faithful =>
                   /\ Len(result.entries) = Len(archive.members)
                   /\ \A k \in 1..Len(acc) :
                          acc[k].file_name = from_utf8_lossy(archive.members[k].name)
    /\ pc = "walk" => result = NoResult
    /\ pc = "failed" => result.status = "err"
    /\ result.status # "ok" => result.entries = <<>>
    /\ result.status = "ok" => pc = "listed" \/ (pc = "aborted" /\ last.status = "abort")

\* The second header does not decode, after a first one that did.
C8_Witness ==
    /\ pc = "failed"
    /\ Len(acc) = 1
    /\ ~parse_cdfh(file, cd_data, cursor).ok
    /\ result = ListFailed(parse_cdfh(file, cd_data, cursor).err)
    /\ result.err = Err("Invalid Central Directory File Header")

\* A header cut short by the end of the Central Directory.
C8_Truncated ==
    /\ pc = "failed" /\ Len(acc) = 1
    /\ result.err = Err("failed to fill whole buffer")

C8_Listed ==
    /\ pc = "listed" /\ Len(result.entries) = 2 /\ Faithful

\* C9: an entry whose method m is neither 0 nor 8 is listed as Unknown(m);
\* extracting it never returns bytes, and on an archive whose Local File
\* Headers are in place the error is "Unsupported compression method: m".
C9_UnknownMethod ==
    /\ (pc = "listed" /\ Faithful) =>
            \A k \in 1..Len(result.entries) :
                LET m == archive.members[k].method
                IN  result.entries[k].compression_method =
                        IF m = 0 THEN [tag |-> "Stored", v |-> 0]
                        ELSE IF m = 8 THEN [tag |-> "Deflate", v |-> 8]
                        ELSE [tag |-> "Unknown", v |-> m]
    /\ \A k \in 1..Len(acc) :
            LET h == BufSlice(file, cd_data, starts[k] + 10, 2)
            IN  LE16(h[1], h[2]) \notin {0, 8} =>
                    acc[k].compression_method = [tag |-> "Unknown", v |-> LE16(h[1], h[2])]
    /\ (last.op # "none"
            /\ result.entries[last.index].compression_method.tag = "Unknown") =>
            /\ last.status = "err"
            /\ last.data = Bytes(<<>>)
            /\ Faithful =>
                   last.err = [msg |-> "Unsupported compression method",
                               arg |-> archive.members[last.index].method]

C9_Witness ==
    /\ Extracted /\ Faithful
    /\ last.op = "memory"
    /\ archive.members[last.index].method = 12
    /\ result.entries[last.index].compression_method = Unknown(12)
    /\ last.err = [msg |-> "Unsupported compression method", arg |-> 12]

\* C10: for a Stored member of content C the three sinks agree: the memory
\* sink returns C, the file sink leaves a file holding C and nothing else,
\* the stdout sink is written C.
C10_SinksAgree ==
    (Extracted /\ Faithful /\ archive.members[last.index].method = 0) =>
        LET C == Bytes(archive.members[last.index].content)
        IN  /\ last.status = "ok"
            /\ last.data = C
            /\ last.op = "file" =>
                   /\ fs_files[last.path] = C
                   /\ Parent(last.path) # <<>> => Parent(last.path) \in fs_dirs
            /\ last.op = "stdout" => stdout # <<>> /\ stdout[Len(stdout)] = C

\* The file sink has replaced a longer file by C.
C10_Witness ==
    /\ Extracted /\ Faithful
    /\ last.op = "file" /\ last.path = <<"out">>
    /\ archive.members[last.index].method = 0
    /\ Len(archive.members[last.index].content) = 2
    /\ fs_files[<<"out">>] = Bytes(archive.members[last.index].content)

C10_Stdout ==
    /\ Extracted /\ Faithful /\ last.op = "stdout"
    /\ stdout = <<Bytes(archive.members[last.index].content)>>
    /\ archive.members[last.index].content # <<>>

C10_Memory ==
    /\ Extracted /\ Faithful /\ last.op = "memory"
    /\ archive.members[last.index].method = 0
    /\ last.data = Bytes(archive.members[last.index].content)
    /\ last.data.head # <<>>

----------------------------------------------------------------------------
(* Claims on the functions of structures.rs, under SpecPure *)

\* What the field formulas give for a 16-bit t or d, in plain arithmetic.
TimeFields(t) ==
    [hour |-> (t \div 2048) % 32, minute |-> (t \div 32) % 64, second |-> (t % 32) * 2]

DateFields(d) ==
    [year |-> ((d \div 512) % 128) + 1980, month |-> (d \div 32) % 16, day |-> d % 32]

----------------------------------------------------------------------------
(* Claims on HttpRangeReader::read_at, under SpecHttp *)

MaxRetriesExceeded == CallErr(Err("Max retries exceeded"))

\* A call is under way: a request has been sent and not yet answered.
InFlight == call.pc = "sent"

\* A call has ended (returned or panicked) and another may start.
Ended == call.pc # "sent" /\ call.result.status # "none"

\* min(O + N - 1, S - 1) as an integer, for the call's O and N and the
\* source's S (an offset that is not a small number is above every S).
RangeEnd(c) ==
    IF IsSmall(c.offset)
    THEN Min(ToNat(c.offset) + c.len - 1, ToNat(http_size) - 1)
    ELSE ToNat(http_size) - 1

\* The read lies inside the source: O < S (and so nothing overflows).
WithinSource(c) == IsSmall(c.offset) /\ ToNat(c.offset) < ToNat(http_size)

\* C11: for a read_at of N > 0 bytes at offset O on a source of size S the
\* first request has the range O-min(O+N-1, S-1); every request reissued
\* after a short body keeps that end and starts at O plus the bytes already
\* received; a read with an empty buffer sends no request and returns 0.
C11_RangeHeader ==
    /\ InFlight =>
        /\ RangeEnd(call) >= 0
        /\ call.first = <<[start |-> call.offset, end |-> U64(RangeEnd(call))]>>
        /\ call.req[1].end = call.first[1].end
        /\ ~Add64(call.offset, U64(call.received)).over
        /\ call.req[1].start = Add64(call.offset, U64(call.received)).bytes
    /\ (Ended /\ call.len = 0) => (call.first = <<>> /\ call.result = CallOk(0))

\* The same for the reads that begin inside the source.
C11_WithinSource ==
    /\ (InFlight /\ WithinSource(call)) =>
        /\ call.first = <<[start |-> call.offset, end |-> U64(RangeEnd(call))]>>
        /\ call.req = <<[start |-> U64(ToNat(call.offset) + call.received),
                         end |-> U64(RangeEnd(call))]>>
    /\ (Ended /\ call.len = 0) => (call.first = <<>> /\ call.result = CallOk(0))

\* A request has been reissued after a short body, inside the source.
C11_Reissued ==
    /\ InFlight
    /\ WithinSource(call)
    /\ call.received > 0
    /\ call.req # call.first

\* One step of a call, as C12 has it: while the call runs fewer than 10
\* transient failures have happened and the last sleep was 500 ms times
\* their number; a failure that is not the tenth is followed by that sleep
\* and the same request again; the call ends with "Max retries exceeded" on
\* the tenth failure, and only then.
RetryStep ==
    /\ InFlight => (call.retry_count < 10 /\ call.slept = 500 * call.retry_count)
    /\ (InFlight /\ call'.pc = "sent" /\ call'.retry_count # call.retry_count) =>
        /\ call'.retry_count = call.retry_count + 1
        /\ call'.slept = 500 * call'.retry_count
        /\ call'.req = call.req
    /\ (InFlight /\ call'.result = MaxRetriesExceeded) =>
        /\ call.retry_count = 9
        /\ call'.pc = "idle"
    /\ (InFlight /\ call.retry_count = 9 /\ call'.pc = "sent") =>
        call'.retry_count = 9

\* C12: within one read_at call, after 10 transient (timeout or connect)
\* failures the call fails with "Max retries exceeded"; one call sends no
\* more than 10 requests that fail, and the sleep before the k-th retry is
\* 500 ms times k.
C12_RetryBudget == [][RetryStep]_vars

\* A call has failed with its retries exhausted.
C12_Witness == call.pc = "idle" /\ call.result = MaxRetriesExceeded

\* C13: the retry budget counts only consecutive transient failures: a 206
\* response (a short body included) sets the count back, so a read fails
\* with "Max retries exceeded" only after 10 transient failures in a row.
\* Stated for the reads that begin inside the source: no such call that
\* fails with its retries exhausted has had a 206 response after a failure.
C13_ConsecutiveOnly ==
    [][(InFlight /\ WithinSource(call) /\ call'.result = MaxRetriesExceeded)
            => ~call.interrupted]_vars

\* C14: after any sequence of read_at calls transferred_bytes() equals the
\* sum of the byte counts read_at returned to its callers.  Stated for the
\* first call on a reader, when it begins inside the source and returns.
C14_CounterIsSum ==
    (call.pc = "idle" /\ ncalls = 1 /\ WithinSource(call)) => transferred_bytes = returned

----------------------------------------------------------------------------
(* Claims on the listed entries and on damaged sources, under Spec *)

\* list has returned Ok(entries).
ListedOk == result.status = "ok" /\ pc \in {"listed", "aborted"}

\* C16: every entry returned by list has is_directory = true iff its file
\* name ends with '/', and every such directory entry reports
\* uncompressed_size = 0.
C16_Directories ==
    ListedOk =>
        \A k \in 1..Len(result.entries) :
            LET e == result.entries[k]
            IN  /\ e.is_directory <=> ends_with_slash(e.file_name)
                /\ e.is_directory => e.uncompressed_size = U64(0)

\* The first half of C16 alone.
C16_FlagIffSlash ==
    ListedOk =>
        \A k \in 1..Len(result.entries) :
            result.entries[k].is_directory <=> ends_with_slash(result.entries[k].file_name)

\* A directory entry and an entry that is none have been listed.
C16_BothKinds ==
    /\ ListedOk
    /\ \E k \in 1..Len(result.entries) : result.entries[k].is_directory
    /\ \E k \in 1..Len(result.entries) : ~result.entries[k].is_directory

\* a + b + c <= n for u64 a and b and small numbers c and n.
SumWithin(a, b, c, n) ==
    /\ IsSmall(a) /\ ToNat(a) <= n
    /\ IsSmall(b) /\ ToNat(b) <= n
    /\ ToNat(a) + ToNat(b) + c <= n

\* C18: every entry returned by a successful list satisfies
\* compressed_size + lfh_offset + 30 + name_len + extra_len <= size(), and
\* every Stored entry returned has compressed_size = uncompressed_size.
C18_EntryRanges ==
    ListedOk =>
        \A k \in 1..Len(result.entries) :
            LET e == result.entries[k]
            IN  /\ SumWithin(e.compressed_size, e.lfh_offset,
                             LFH_SIZE + Parsed(k).name_len + Parsed(k).extra_len,
                             Len(file))
                /\ e.compression_method = Stored =>
                        e.compressed_size = e.uncompressed_size

\* The Central Directory offset that list took from the EOCD or the ZIP64
\* EOCD lies at or past the end of the source.
CdPastEnd == cd # NoCd /\ ~U64Lt(cd.off, U64(Len(file)))

\* C19: if the Central Directory offset taken from the EOCD (or ZIP64 EOCD)
\* lies at or past the end of the source, list fails with an error for
\* every declared cd_size and total_entries, total_entries = 0 included
\* (stated for the lists that end without running out of memory).
C19_CdPastEnd ==
    (CdPastEnd /\ pc \in {"listed", "failed"}) => (pc = "failed" /\ result.status = "err")

\* The same with at least one entry declared.
C19_EntriesDeclared ==
    (CdPastEnd /\ pc \in {"listed", "failed"} /\ cd.total # U64(0))
        => (pc = "failed" /\ result.status = "err")

\* C20: when an entry's data range extends past the end of the source, so
\* that the positioned read returns fewer bytes than requested,
\* extract_to_memory fails with an error; it never returns a buffer whose
\* tail was not filled from the source.
C20_NoUnfilledTail ==
    (last.op = "memory" /\ last.status = "ok") => last.data.pad = 0

----------------------------------------------------------------------------
(* Further claims on HttpRangeReader::read_at, under SpecHttp *)

\* C29: the expected byte count min(offset + len - 1, size - 1) - offset + 1
\* is computed without u64 underflow or overflow for every offset, every
\* non-empty buffer and every size, offset >= size and size = 0 included:
\* no call panics, and no request has a range end below its start.
C29_NoUnderflow ==
    /\ call.pc # "panicked"
    /\ InFlight => ~U64Lt(call.req[1].end, call.req[1].start)

\* The half of C29 on the requests, for the builds that wrap.
C29_EndNotBelowStart == InFlight => ~U64Lt(call.req[1].end, call.req[1].start)

\* The error of a body that timed out while it was received.
BodyTimedOut == CallErr([msg |-> "error decoding response body", arg |-> 1])

\* A response whose status is not 206 ends the call at once, and the
\* counter and the retry budget are as they were.
StatusStep ==
    (InFlight /\ call'.result.status = "err"
              /\ call'.result.err.msg = "HTTP request failed with status") =>
        /\ call'.pc = "idle"
        /\ transferred_bytes' = transferred_bytes
        /\ returned' = returned

\* A send error that is neither a timeout nor a connect error ends the call
\* at once.
TransportStep ==
    (InFlight /\ call'.result = CallErr(Err("transport error"))) =>
        (call'.pc = "idle" /\ transferred_bytes' = transferred_bytes)

\* A timeout is retried wherever it happens: no call ends with the error of
\* a body that timed out.
BodyTimeoutStep == (InFlight /\ WithinSource(call)) => call'.result # BodyTimedOut

\* C24: every timeout or connect failure, while the request is sent or
\* while the body is received, is counted against the retry budget and
\* retried; every other transport error surfaces at once; a response whose
\* status is not 206 fails the call at once and leaves the counter alone.
C24_Classification == [][StatusStep /\ TransportStep /\ BodyTimeoutStep]_vars

\* C24 without the timeouts of a body.
C24_SendAndStatus == [][StatusStep /\ TransportStep]_vars

\* C23: every read_at call terminates after a bounded number of requests,
\* with all expected bytes received or the retry budget exhausted, whatever
\* the server answers (short and empty 206 bodies included).  Stated for
\* the reads that begin inside the source.
C23_Terminates == (InFlight /\ WithinSource(call)) ~> ~InFlight

\* The same claim on a server whose every 206 body brings at least one byte
\* is a matter of counting: each step of a call either adds to received or
\* to retry_count, or ends the call.
Progress ==
    (InFlight /\ call'.pc = "sent") =>
        \/ call'.received > call.received
        \/ call'.retry_count > call.retry_count
        \/ call'.received = call.received /\ call'.retry_count = call.retry_count
                /\ call'.req = call.req /\ call'.odd # call.odd

C23_ProgressOrEmptyBody == [][Progress]_vars

----------------------------------------------------------------------------
(* Claims on a shared HttpRangeReader, under SpecShared *)

\* The counter is the sum of what the two calls copied; a call under way has
\* received what it copied itself; a call that returned Ok returned what it
\* copied, which is the whole of its range.
CounterAndLocals ==
    /\ transferred_bytes = tally[1] + tally[2]
    /\ \A i \in Tasks :
        LET c == TaskCall(i)
        IN  /\ c.pc = "sent" => (c.received = tally[i] /\ c.retry_count < 10)
            /\ (c.pc = "idle" /\ c.result.status = "ok") =>
                    /\ c.result.n = tally[i]
                    /\ c.result.n = Min(c.len, ToNat(http_size) - ToNat(c.offset))

\* A step of one call leaves the locals of the other (received and
\* retry_count among them) as they were.
OwnResponsesOnly ==
    /\ call' = call \/ peer' = peer
    /\ call' # call => tally'[2] = tally[2]
    /\ peer' # peer => tally'[1] = tally[1]

\* C25: for any interleaving of concurrent read_at calls on one shared
\* reader the only shared mutable state is the transferred-byte counter: its
\* value equals the sum of the chunk lengths copied by all calls (no lost
\* update), and each call's received count and retry count depend only on
\* the responses to its own requests.
C25_SharedCounter == [][CounterAndLocals /\ CounterAndLocals' /\ OwnResponsesOnly]_vars

\* Both calls are under way, both have copied a byte, and one has retried.
C25_Witness ==
    /\ call.pc = "sent" /\ peer.pc = "sent"
    /\ tally[1] > 0 /\ tally[2] > 0
    /\ call.retry_count > 0
    /\ transferred_bytes = 2

----------------------------------------------------------------------------
(* Further claims on the parser and the extractor, under Spec *)

\* Record k of the listed Central Directory lies wholly inside the cd_size
\* bytes: its 46 fixed bytes, its name, its extra field and its comment.
Complete(k) ==
    /\ Parsed(k).pos = starts[k] + CDFH_MIN_SIZE + Parsed(k).name_len
                            + Parsed(k).extra_len + Parsed(k).comment_len
    /\ Parsed(k).pos <= ToNat(cd_data.len)

\* C21: list succeeds only if the cd_size bytes read at cd_offset contain
\* total_entries complete records of 46 + name + extra + comment bytes; if
\* the declared lengths of any record (the last record's extra field or
\* comment included) run past cd_size, list fails with an error.
C21_CompleteRecords ==
    ListedOk =>
        /\ Len(result.entries) = ToNat(cd.total)
        /\ \A k \in 1..Len(result.entries) : Complete(k)

\* The same for the fixed part and the name of each record, and for every
\* record but the last.
C21_NamesAndInnerRecords ==
    ListedOk =>
        /\ Len(result.entries) = ToNat(cd.total)
        /\ \A k \in 1..Len(result.entries) :
            /\ starts[k] + CDFH_MIN_SIZE + Parsed(k).name_len <= ToNat(cd_data.len)
            /\ k < Len(result.entries) => Complete(k)

\* The ZIP64 branch was taken and no Locator with a ZIP64 EOCD behind it
\* stands before the EOCD.
Zip64Missing ==
    /\ zip64
    /\ pc \notin {"idle", "eocd"}
    /\ \/ eocd_offset < LOCATOR_SIZE
       \/ read_zip64_eocd(file, eocd_offset, "wrap").status # "ok"

\* C22: when the EOCD requires ZIP64 and the Locator or the ZIP64 EOCD is
\* missing or invalid (wrong signature at eocd_offset - 20, wrong signature
\* at the Locator's offset, fewer than 20 bytes before the EOCD) list fails
\* with an error, and eocd_offset - 20 is never computed with underflow: no
\* panic, and no read at a wrapped offset.
C22_Zip64Missing ==
    Zip64Missing =>
        /\ pc = "failed" /\ result.status = "err"
        /\ \A k \in 1..Len(reads) : ~ReadFails(reads[k].off)

\* The same when at least 20 bytes stand before the EOCD.
C22_RoomForLocator ==
    (Zip64Missing /\ eocd_offset >= LOCATOR_SIZE) =>
        (pc = "failed" /\ result.status = "err")

\* The Locator or the ZIP64 EOCD behind it was invalid, with room for both.
C22_InvalidRecord ==
    /\ Zip64Missing
    /\ eocd_offset >= LOCATOR_SIZE
    /\ pc = "failed"
    /\ Len(reads) > 1

\* C26: the EOCD location, the ZIP64 promotion and the Central Directory
\* bytes are computed on the first list and kept: a later list on the same
\* parser issues no further read of them.
C26_Cached == [][(pc = "listed" /\ pc' \in {"eocd", "failed"}) => reads' = <<>>]_vars

\* C28: every 8-byte replacement value of a 0x0001 record whose header
\* declares payload size s is taken from within the s payload bytes of that
\* record; none is read from bytes beyond them, such as a following record.
C28_WithinPayload ==
    ListedOk =>
        \A k \in 1..Len(result.entries) :
            \A j \in 1..Len(Parsed(k).z64) : Parsed(k).z64[j].used <= Parsed(k).z64[j].size

\* The replacements are taken from within the extra field of the header.
C28_WithinExtraField ==
    ListedOk =>
        \A k \in 1..Len(result.entries) :
            \A j \in 1..Len(Parsed(k).z64) :
                Parsed(k).z64[j].at + Parsed(k).z64[j].used
                    <= Parsed(k).extra_at + Parsed(k).extra_len

\* The filesystem as it was before any extraction.
FsUntouched ==
    /\ fs_dirs = {}
    /\ fs_files = [p \in Paths |-> IF p = <<"out">> THEN OldContent ELSE NoFile]

\* C30: when extract_to_file fails because the entry cannot be read or
\* decoded, the filesystem is as it was: the output file is neither created
\* nor truncated and no parent directory has been created.
C30_NoTrace == (last.op = "file" /\ last.status = "err") => FsUntouched

\* The half of C30 on the output file.
C30_FileUntouched ==
    (last.op = "file" /\ last.status = "err") =>
        fs_files = [p \in Paths |-> IF p = <<"out">> THEN OldContent ELSE NoFile]

----------------------------------------------------------------------------
(* Claims on the verbose listing, under SpecRatio *)

Verbose == ret.op = "list_files" /\ ret.verbose

\* C27: the verbose listing prints 100 - (compressed * 100 / uncompressed)
\* when uncompressed > 0 and 0% otherwise, and the u64 computation neither
\* underflows nor overflows, also for entries (and for summary totals over
\* the non-directory entries) whose compressed size exceeds the
\* uncompressed size.
C27_RatioInRange ==
    Verbose => ret.val.status = "ok" /\ ~ret.val.over

\* The same for listings in which every size is below 2^31 and no entry is
\* larger compressed than uncompressed: every row and the summary are
\* printed, with the ratio of the formula.
Shrinking ==
    \A i \in 1..Len(arg) :
        /\ IsSmall(arg[i].compressed_size)
        /\ IsSmall(arg[i].uncompressed_size)
        /\ ~U64Lt(arg[i].uncompressed_size, arg[i].compressed_size)

Percent(c, u) == IF u > 0 THEN 100 - ((c * 100) \div u) ELSE 0

C27_RatioWhenNotLarger ==
    (Verbose /\ Shrinking) =>
        /\ ret.val.status = "ok" /\ ~ret.val.over
        /\ Len(ret.val.rows) = Len(arg)
        /\ \A i \in 1..Len(arg) :
            ret.val.rows[i].cmpr = U64(Percent(ToNat(arg[i].compressed_size),
                                               ToNat(arg[i].uncompressed_size)))
        /\ Len(ret.val.summary) = 1

C27_Saved ==
    /\ Verbose /\ Shrinking
    /\ Len(arg) = 2
    /\ \E i \in 1..2 : ret.val.rows[i].cmpr = U64(50)
    /\ ret.val.summary[1].files = 2

====
